---- MODULE Spec2Model ----
(***************************************************************************)
(* PTX tokens (Stygian-Inc/ptx-jesuit-go): the Redis-backed replay store,  *)
(* the verification engine, the prover / verifier signal derivation and    *)
(* the PTX container loader.                                               *)
(*                                                                         *)
(* Numbers are scaled: the BN254 scalar field is the prime field of order  *)
(* SNARK_FIELD_SIZE below, a SHA-256 digest has DigestBits bits and is     *)
(* split into two halves of HalfBits bits.  The scaling keeps the order    *)
(* relations of the program: 2^HalfBits < SNARK_FIELD_SIZE < 2^DigestBits, *)
(* so a half always fits the field and a digest may need reduction.        *)
(***************************************************************************)
EXTENDS Integers, Sequences, FiniteSets, TLC

(***************************************************************************)
(* Field arithmetic and SHA-256                                            *)
(***************************************************************************)

\* pkg/crypto: SNARK_FIELD_SIZE, the modulus of fr.Element (scaled).
SNARK_FIELD_SIZE == 101

\* Width of a SHA-256 digest (scaled from 256) and of one half (from 128).
DigestBits == 8

HalfBits == 4

RECURSIVE Pow2(_)
Pow2(n) == IF n = 0 THEN 1 ELSE 2 * Pow2(n - 1)

DigestSpace == Pow2(DigestBits)

\* fr.Element.SetBigInt / SetInt64: reduction into [0, p).
SetBigInt(n) == n % SNARK_FIELD_SIZE

\* The value of Body at v, v being computed first (a local variable
\* assigned once and then read).
With(v, Body(_)) == CHOOSE out \in {Body(x) : x \in {v}} : TRUE

\* sha256.Sum256 read as an unsigned big-endian integer.  A message is the
\* natural number that codes its bytes; the stand-in is a bijection on the
\* digest space, so distinct messages of the model have distinct digests.
Sha256(msg) == (msg * 37 + 11) % DigestSpace

(***************************************************************************)
(* Poseidon, scalar implementation (pkg/crypto)                            *)
(***************************************************************************)

\* nRoundsF := 8
nRoundsF == 8

\* var nRoundsP = []int{56, 57, 56, 60, ...}, indexed by t-2
nRoundsP == <<56, 57, 56, 60, 60, 63, 64, 63, 60, 66, 60, 65, 70, 60, 64, 68>>

\* The parameter tables of the reference circuit for width t: round
\* constants (length nRoundsF*t + R_P), MDS matrix, pre-sparse matrix
\* (t x t) and sparse matrix (length (2t-1)*R_P).
TableC(t) == [i \in 1..(nRoundsF * t + nRoundsP[t - 1]) |-> (7 * i + 3 * t + 1) % SNARK_FIELD_SIZE]

TableM(t) == [j \in 1..t |-> [i \in 1..t |-> (j * j + 3 * i + t) % SNARK_FIELD_SIZE]]

TableP(t) == [j \in 1..t |-> [i \in 1..t |-> (2 * j + i * i + 5 * t) % SNARK_FIELD_SIZE]]

TableS(t) == [i \in 1..((2 * t - 1) * nRoundsP[t - 1]) |-> (5 * i + t + 2) % SNARK_FIELD_SIZE]

poseidonC2 == TableC(2)

poseidonM2 == TableM(2)

poseidonP2 == TableP(2)

poseidonS2 == TableS(2)

poseidonC4 == TableC(4)

poseidonM4 == TableM(4)

poseidonP4 == TableP(4)

poseidonS4 == TableS(4)

poseidonC5 == TableC(5)

poseidonM5 == TableM(5)

poseidonP5 == TableP(5)

poseidonS5 == TableS(5)

\* A switch on t that also has tables for width 3.
PoseidonTablesWidthThree(t) ==
    IF t \in {2, 3, 4, 5}
    THEN [ok |-> TRUE, c |-> TableC(t), m |-> TableM(t), p |-> TableP(t), s |-> TableS(t)]
    ELSE [ok |-> FALSE]

\* The switch on t of PoseidonHash: the tables, or none for another width.
PoseidonTables(t) ==
    CASE t = 2 -> [ok |-> TRUE, c |-> poseidonC2, m |-> poseidonM2, p |-> poseidonP2, s |-> poseidonS2]
      [] t = 4 -> [ok |-> TRUE, c |-> poseidonC4, m |-> poseidonM4, p |-> poseidonP4, s |-> poseidonS4]
      [] t = 5 -> [ok |-> TRUE, c |-> poseidonC5, m |-> poseidonM5, p |-> poseidonP5, s |-> poseidonS5]
      [] OTHER -> [ok |-> FALSE]

\* sBox: x^5 as (x*x)*(x*x)*x
sBox(x) ==
    LET x2 == (x * x) % SNARK_FIELD_SIZE
        x4 == (x2 * x2) % SNARK_FIELD_SIZE
    IN  (x4 * x) % SNARK_FIELD_SIZE

RECURSIVE SBoxAll(_, _)
SBoxAll(state, i) ==
    IF i > Len(state) THEN <<>> ELSE <<sBox(state[i])>> \o SBoxAll(state, i + 1)

\* ark: state[i] += c[i+r], i = 0..t-1 (tables are 1-based here)
RECURSIVE ark(_, _, _, _)
ark(state, c, r, i) ==
    IF i > Len(state) THEN <<>>
    ELSE <<(state[i] + c[(i - 1) + r + 1]) % SNARK_FIELD_SIZE>> \o ark(state, c, r, i + 1)

\* inner loop of mix: sum over j of state[j] * matrix[j][i]
RECURSIVE MixColumn(_, _, _, _)
MixColumn(state, matrix, i, j) ==
    IF j > Len(state) THEN 0
    ELSE (state[j] * matrix[j][i] + MixColumn(state, matrix, i, j + 1)) % SNARK_FIELD_SIZE

RECURSIVE mix(_, _, _)
mix(state, matrix, i) ==
    IF i > Len(state) THEN <<>>
    ELSE <<MixColumn(state, matrix, i, 1)>> \o mix(state, matrix, i + 1)

\* mixS, first element: sum over i of state[i] * s[sOffset+i]
RECURSIVE MixSDot(_, _, _, _)
MixSDot(state, s, sOffset, i) ==
    IF i > Len(state) THEN 0
    ELSE (state[i] * s[sOffset + (i - 1) + 1] + MixSDot(state, s, sOffset, i + 1)) % SNARK_FIELD_SIZE

\* mixS, remaining elements: state[i] + state[0] * s[sOffset+t+i-1], i = 1..t-1
RECURSIVE MixSRest(_, _, _, _)
MixSRest(state, s, sOffset, i) ==
    IF i > Len(state) THEN <<>>
    ELSE <<(state[i] + state[1] * s[sOffset + Len(state) + (i - 1) - 1 + 1]) % SNARK_FIELD_SIZE>>
         \o MixSRest(state, s, sOffset, i + 1)

mixS(state, s, r) ==
    LET sOffset == (Len(state) * 2 - 1) * r
    IN  <<MixSDot(state, s, sOffset, 1)>> \o MixSRest(state, s, sOffset, 2)

\* One full round: sBox on every element, ark at offset cOff, mix with matrix.
FullRound(state, c, cOff, matrix) ==
    With(SBoxAll(state, 1), LAMBDA boxed :
    With(ark(boxed, c, cOff, 1), LAMBDA added : mix(added, matrix, 1)))

\* for r := 0; r < nRoundsF/2-1; r++ { sBox all; ark(state, (r+1)*t); mix(m) }
RECURSIVE FirstFullRounds(_, _, _)
FirstFullRounds(state, tb, r) ==
    IF r >= nRoundsF \div 2 - 1 THEN state
    ELSE With(FullRound(state, tb.c, (r + 1) * Len(state), tb.m),
              LAMBDA next : FirstFullRounds(next, tb, r + 1))

\* One partial round: state[0] = sBox(state[0]) + c[(nRoundsF/2+1)*t+r]; mixS(r)
PartialRound(state, tb, r) ==
    With((sBox(state[1]) + tb.c[(nRoundsF \div 2 + 1) * Len(state) + r + 1]) % SNARK_FIELD_SIZE,
         LAMBDA s0 : mixS([state EXCEPT ![1] = s0], tb.s, r))

\* for r := lo; r < hi; r++ { partial round r }, the loop split at its middle
RECURSIVE PartialRounds(_, _, _, _)
PartialRounds(state, tb, lo, hi) ==
    IF hi <= lo THEN state
    ELSE IF hi = lo + 1 THEN PartialRound(state, tb, lo)
    ELSE With(PartialRounds(state, tb, lo, (lo + hi) \div 2),
              LAMBDA half : PartialRounds(half, tb, (lo + hi) \div 2, hi))

\* for r := 0; r < nRoundsF/2-1; r++ { sBox all; ark(.., (nRoundsF/2+1)*t+nRoundsP+r*t); mix(m) }
RECURSIVE SecondFullRounds(_, _, _, _)
SecondFullRounds(state, tb, rP, r) ==
    IF r >= nRoundsF \div 2 - 1 THEN state
    ELSE With(FullRound(state, tb.c, (nRoundsF \div 2 + 1) * Len(state) + rP + r * Len(state), tb.m),
              LAMBDA next : SecondFullRounds(next, tb, rP, r + 1))

\* The rounds of PoseidonHash for a supported width.
PoseidonRounds(inputs, tb, rP) ==
    With(ark(<<0>> \o inputs, tb.c, 0, 1), LAMBDA s0 :
    With(FirstFullRounds(s0, tb, 0), LAMBDA s1 :
    With(FullRound(s1, tb.c, (nRoundsF \div 2) * Len(s1), tb.p), LAMBDA s2 :
    With(PartialRounds(s2, tb, 0, rP), LAMBDA s3 :
    With(SecondFullRounds(s3, tb, rP, 0), LAMBDA s4 :
    With(SBoxAll(s4, 1), LAMBDA boxed : mix(boxed, tb.m, 1)))))))

\* PoseidonHash(inputs): [ok, val]; ok = FALSE is the unsupported-width error.
PoseidonHash(inputs) ==
    With(inputs, LAMBDA in :
    With(PoseidonTables(Len(in) + 1), LAMBDA tb :
        IF ~tb.ok THEN [ok |-> FALSE, val |-> 0]
        ELSE With(PoseidonRounds(in, tb, nRoundsP[Len(in) + 1 - 2 + 1]),
                  LAMBDA out : [ok |-> TRUE, val |-> out[1]])))

\* CircuitHash is an alias for PoseidonHash
CircuitHash(inputs) == PoseidonHash(inputs)

(***************************************************************************)
(* Poseidon inside the circuit (pkg/circuit/poseidon).  A frontend         *)
(* variable is the field element the witness gives it; api.Mul and         *)
(* api.Add are the field operations.                                       *)
(***************************************************************************)

\* The parameter tables of package poseidon: the same reference parameters
\* as the tables of package crypto.
C_T2 == TableC(2)

M_T2 == TableM(2)

P_T2 == TableP(2)

S_T2 == TableS(2)

C_T4 == TableC(4)

M_T4 == TableM(4)

P_T4 == TableP(4)

S_T4 == TableS(4)

C_T5 == TableC(5)

M_T5 == TableM(5)

P_T5 == TableP(5)

S_T5 == TableS(5)

NoParams == [ok |-> FALSE, T |-> 0, NRoundsF |-> 0, NRoundsP |-> 0,
             C |-> <<>>, M |-> <<>>, P |-> <<>>, S |-> <<>>]

Params(t, c, m, p, s) ==
    [ok |-> TRUE, T |-> t, NRoundsF |-> 8,
     NRoundsP |-> <<56, 57, 56, 60, 60, 63, 64, 63, 60, 66, 60, 65, 70, 60, 64, 68>>[t - 2 + 1],
     C |-> c, M |-> m, P |-> p, S |-> s]

\* GetParams(t): ok = FALSE is "unsupported t value"
GetParams(t) ==
    CASE t = 2 -> Params(t, C_T2, M_T2, P_T2, S_T2)
      [] t = 4 -> Params(t, C_T4, M_T4, P_T4, S_T4)
      [] t = 5 -> Params(t, C_T5, M_T5, P_T5, S_T5)
      [] OTHER -> NoParams

\* NewHasher(api, nInputs): the hasher is its parameters
NewHasher(nInputs) == GetParams(nInputs + 1)

\* Hasher.sBox
HasherSBox(x) ==
    With((x * x) % SNARK_FIELD_SIZE, LAMBDA x2 :
    With((x2 * x2) % SNARK_FIELD_SIZE, LAMBDA x4 : (x4 * x) % SNARK_FIELD_SIZE))

\* for i := 0; i < t; i++ { state[i] = h.sBox(state[i]) }
RECURSIVE HasherSBoxes(_, _, _)
HasherSBoxes(h, state, i) ==
    IF i >= h.T THEN <<>> ELSE <<HasherSBox(state[i + 1])>> \o HasherSBoxes(h, state, i + 1)

\* Hasher.arkAtOffset: state[i] += C[offset+i]
RECURSIVE arkAtOffset(_, _, _, _)
arkAtOffset(h, state, offset, i) ==
    IF i >= h.T THEN <<>>
    ELSE <<(state[i + 1] + h.C[offset + i + 1]) % SNARK_FIELD_SIZE>> \o arkAtOffset(h, state, offset, i + 1)

\* The inner loop of a mix that reads the matrix row-major: matrix[i][j].
RECURSIVE HasherMixAccRowMajor(_, _, _, _, _, _)
HasherMixAccRowMajor(h, state, matrix, i, j, acc) ==
    IF j >= h.T THEN acc
    ELSE HasherMixAccRowMajor(h, state, matrix, i, j + 1,
                              (acc + state[j + 1] * matrix[i + 1][j + 1]) % SNARK_FIELD_SIZE)

\* Hasher.mix, inner loop: acc += state[j] * matrix[j][i]
RECURSIVE HasherMixAcc(_, _, _, _, _, _)
HasherMixAcc(h, state, matrix, i, j, acc) ==
    IF j >= h.T THEN acc
    ELSE HasherMixAcc(h, state, matrix, i, j + 1,
                      (acc + state[j + 1] * matrix[j + 1][i + 1]) % SNARK_FIELD_SIZE)

\* Hasher.mix
RECURSIVE HasherMix(_, _, _, _)
HasherMix(h, state, matrix, i) ==
    IF i >= h.T THEN <<>>
    ELSE <<HasherMixAcc(h, state, matrix, i, 0, 0)>> \o HasherMix(h, state, matrix, i + 1)

\* Hasher.mixS, first element: acc += state[i] * S[sOffset+i]
RECURSIVE HasherMixSAcc(_, _, _, _, _)
HasherMixSAcc(h, state, sOffset, i, acc) ==
    IF i >= h.T THEN acc
    ELSE HasherMixSAcc(h, state, sOffset, i + 1,
                       (acc + state[i + 1] * h.S[sOffset + i + 1]) % SNARK_FIELD_SIZE)

\* Hasher.mixS, remaining elements: state[i] + state[0] * S[sOffset+t+i-1]
RECURSIVE HasherMixSRest(_, _, _, _)
HasherMixSRest(h, state, sOffset, i) ==
    IF i >= h.T THEN <<>>
    ELSE <<(state[i + 1] + state[1] * h.S[sOffset + h.T + i - 1 + 1]) % SNARK_FIELD_SIZE>>
         \o HasherMixSRest(h, state, sOffset, i + 1)

\* Hasher.mixS
HasherMixS(h, state, round) ==
    With((h.T * 2 - 1) * round, LAMBDA sOffset :
        <<HasherMixSAcc(h, state, sOffset, 0, 0)>> \o HasherMixSRest(h, state, sOffset, 1))

\* A full round of Hasher.Hash: S-box on every element, arkAtOffset, mix.
HasherFullRound(h, state, offset, matrix) ==
    With(HasherSBoxes(h, state, 0), LAMBDA boxed :
    With(arkAtOffset(h, boxed, offset, 0), LAMBDA added : HasherMix(h, added, matrix, 0)))

\* for r := 0; r < rf/2-1; r++ { ...; arkAtOffset(state, (r+1)*t); mix(M) }
RECURSIVE HasherFirstRounds(_, _, _)
HasherFirstRounds(h, state, r) ==
    IF r >= h.NRoundsF \div 2 - 1 THEN state
    ELSE With(HasherFullRound(h, state, (r + 1) * h.T, h.M),
              LAMBDA next : HasherFirstRounds(h, next, r + 1))

\* A partial round: state[0] = sBox(state[0]) + C[(rf/2+1)*t + r]; mixS(r)
HasherPartialRound(h, state, r) ==
    With((HasherSBox(state[1]) + h.C[(h.NRoundsF \div 2 + 1) * h.T + r + 1]) % SNARK_FIELD_SIZE,
         LAMBDA s0 : HasherMixS(h, [state EXCEPT ![1] = s0], r))

\* for r := lo; r < hi; r++ { partial round r }, the loop split at its middle
RECURSIVE HasherPartialRounds(_, _, _, _)
HasherPartialRounds(h, state, lo, hi) ==
    IF hi <= lo THEN state
    ELSE IF hi = lo + 1 THEN HasherPartialRound(h, state, lo)
    ELSE With(HasherPartialRounds(h, state, lo, (lo + hi) \div 2),
              LAMBDA half : HasherPartialRounds(h, half, (lo + hi) \div 2, hi))

\* for r := 0; r < rf/2-1; r++ { ...; arkAtOffset(state, (rf/2+1)*t+rp+r*t); mix(M) }
RECURSIVE HasherSecondRounds(_, _, _)
HasherSecondRounds(h, state, r) ==
    IF r >= h.NRoundsF \div 2 - 1 THEN state
    ELSE With(HasherFullRound(h, state, (h.NRoundsF \div 2 + 1) * h.T + h.NRoundsP + r * h.T, h.M),
              LAMBDA next : HasherSecondRounds(h, next, r + 1))

\* Hasher.Hash(inputs...): ok = FALSE is "expected %d inputs, got %d"
HasherHash(h, inputs) ==
    IF Len(inputs) # h.T - 1 THEN [ok |-> FALSE, val |-> 0]
    ELSE With(arkAtOffset(h, <<0>> \o inputs, 0, 0), LAMBDA s0 :
         With(HasherFirstRounds(h, s0, 0), LAMBDA s1 :
         With(HasherFullRound(h, s1, (h.NRoundsF \div 2) * h.T, h.P), LAMBDA s2 :
         With(HasherPartialRounds(h, s2, 0, h.NRoundsP), LAMBDA s3 :
         With(HasherSecondRounds(h, s3, 0), LAMBDA s4 :
         With(HasherSBoxes(h, s4, 0), LAMBDA boxed :
         With(HasherMix(h, boxed, h.M, 0), LAMBDA out : [ok |-> TRUE, val |-> out[1]])))))))

\* NewHasher(api, n), then Hash: what Hash1, Hash3 and Hash4 do for their arity.
HashN(inputs) ==
    With(NewHasher(Len(inputs)), LAMBDA h :
        IF ~h.ok THEN [ok |-> FALSE, val |-> 0] ELSE HasherHash(h, inputs))

Hash1(a) == HashN(<<a>>)

Hash3(a, b, c) == HashN(<<a, b, c>>)

Hash4(a, b, c, d) == HashN(<<a, b, c, d>>)

(***************************************************************************)
(* The table positions the two Poseidon implementations read, as the       *)
(* zero-based indices of the code, in the order of the reads               *)
(***************************************************************************)

\* An ark that reads c[i+r] for i = 1..t.
arkReadsFromOne(t, r) == [i \in 1..t |-> i + r]

\* ark(state, r): c[i+r], i = 0..t-1
arkReads(t, r) == [i \in 1..t |-> (i - 1) + r]

\* mixS(state, r): s[sOffset+i], i = 0..t-1, then s[sOffset+t+i-1], i = 1..t-1
mixSReads(t, r) ==
    LET sOffset == (t * 2 - 1) * r
    IN  [i \in 1..t |-> sOffset + (i - 1)] \o [i \in 1..(t - 1) |-> sOffset + t + i - 1]

\* for r := 0; r < nRoundsF/2-1; r++ { ...; ark(state, (r+1)*t); ... }
RECURSIVE FirstFullRoundsReads(_, _)
FirstFullRoundsReads(t, r) ==
    IF r >= nRoundsF \div 2 - 1 THEN <<>>
    ELSE arkReads(t, (r + 1) * t) \o FirstFullRoundsReads(t, r + 1)

\* for r := 0; r < nRoundsP; r++ { ...c[(nRoundsF/2+1)*t+r]...; mixS(state, r) }
PartialRoundsReadsC(t, rP) == [k \in 1..rP |-> (nRoundsF \div 2 + 1) * t + (k - 1)]

RECURSIVE PartialRoundsReadsS(_, _, _)
PartialRoundsReadsS(t, rP, r) ==
    IF r >= rP THEN <<>> ELSE mixSReads(t, r) \o PartialRoundsReadsS(t, rP, r + 1)

\* for r := 0; r < nRoundsF/2-1; r++ { ...; ark(state, (nRoundsF/2+1)*t+nRoundsP+r*t); ... }
RECURSIVE SecondFullRoundsReads(_, _, _)
SecondFullRoundsReads(t, rP, r) ==
    IF r >= nRoundsF \div 2 - 1 THEN <<>>
    ELSE arkReads(t, (nRoundsF \div 2 + 1) * t + rP + r * t) \o SecondFullRoundsReads(t, rP, r + 1)

\* PoseidonHash(inputs): the index into nRoundsP and the reads of c and s
PoseidonHashReads(inputs) ==
    LET t == Len(inputs) + 1
        tb == PoseidonTables(t)
    IN  IF ~tb.ok THEN [ok |-> FALSE]
        ELSE LET rP == nRoundsP[t - 2 + 1]
             IN  [ok |-> TRUE, t |-> t, rF |-> nRoundsF, rP |-> rP,
                  rounds |-> t - 2, nRounds |-> Len(nRoundsP),
                  c |-> arkReads(t, 0) \o FirstFullRoundsReads(t, 0)
                        \o arkReads(t, (nRoundsF \div 2) * t) \o PartialRoundsReadsC(t, rP)
                        \o SecondFullRoundsReads(t, rP, 0),
                  s |-> PartialRoundsReadsS(t, rP, 0),
                  lenC |-> Len(tb.c), lenS |-> Len(tb.s)]

\* Hasher.arkAtOffset(state, offset): C[offset+i], i = 0..t-1
arkAtOffsetReads(h, offset) == [i \in 1..h.T |-> offset + (i - 1)]

\* Hasher.mixS(state, round): S[sOffset+i], then S[sOffset+t+i-1]
HasherMixSReads(h, round) ==
    LET sOffset == (h.T * 2 - 1) * round
    IN  [i \in 1..h.T |-> sOffset + (i - 1)] \o [i \in 1..(h.T - 1) |-> sOffset + h.T + i - 1]

RECURSIVE HasherFirstRoundsReads(_, _)
HasherFirstRoundsReads(h, r) ==
    IF r >= h.NRoundsF \div 2 - 1 THEN <<>>
    ELSE arkAtOffsetReads(h, (r + 1) * h.T) \o HasherFirstRoundsReads(h, r + 1)

\* cIdx := (rf/2+1)*t + r; h.mixS(state, r)
HasherPartialRoundsReadsC(h) == [k \in 1..h.NRoundsP |-> (h.NRoundsF \div 2 + 1) * h.T + (k - 1)]

RECURSIVE HasherPartialRoundsReadsS(_, _)
HasherPartialRoundsReadsS(h, r) ==
    IF r >= h.NRoundsP THEN <<>>
    ELSE HasherMixSReads(h, r) \o HasherPartialRoundsReadsS(h, r + 1)

RECURSIVE HasherSecondRoundsReads(_, _)
HasherSecondRoundsReads(h, r) ==
    IF r >= h.NRoundsF \div 2 - 1 THEN <<>>
    ELSE arkAtOffsetReads(h, (h.NRoundsF \div 2 + 1) * h.T + h.NRoundsP + r * h.T)
         \o HasherSecondRoundsReads(h, r + 1)

\* NewHasher(api, len(inputs)) and Hasher.Hash(inputs...): the reads of C and S
HasherHashReads(inputs) ==
    LET h == NewHasher(Len(inputs))
    IN  IF ~h.ok \/ Len(inputs) # h.T - 1 THEN [ok |-> FALSE]
        ELSE [ok |-> TRUE, t |-> h.T, rF |-> h.NRoundsF, rP |-> h.NRoundsP,
              rounds |-> h.T - 2, nRounds |-> Len(nRoundsP),
              c |-> arkAtOffsetReads(h, 0) \o HasherFirstRoundsReads(h, 0)
                    \o arkAtOffsetReads(h, (h.NRoundsF \div 2) * h.T)
                    \o HasherPartialRoundsReadsC(h) \o HasherSecondRoundsReads(h, 0),
              s |-> HasherPartialRoundsReadsS(h, 0),
              lenC |-> Len(h.C), lenS |-> Len(h.S)]

(***************************************************************************)
(* Strings: hex, decimal strings, JSON metadata                            *)
(***************************************************************************)

HexDigits == <<"0", "1", "2", "3", "4", "5", "6", "7", "8", "9", "a", "b", "c", "d", "e", "f">>

HexValue(ch) == (CHOOSE i \in 1..16 : HexDigits[i] = ch) - 1

\* hex.EncodeToString of a digest: fixed width, most significant digit first.
RECURSIVE HexEncodeWidth(_, _)
HexEncodeWidth(n, width) ==
    IF width = 0 THEN <<>>
    ELSE HexEncodeWidth(n \div 16, width - 1) \o <<HexDigits[(n % 16) + 1]>>

HexEncode(n) == HexEncodeWidth(n, DigestBits \div 4)

\* big.Int.SetString(hexStr, 16)
RECURSIVE HexParse(_)
HexParse(str) ==
    IF Len(str) = 0 THEN 0
    ELSE 16 * HexParse(SubSeq(str, 1, Len(str) - 1)) + HexValue(str[Len(str)])

\* The metadata documents of the model (a map[string]interface{}): every
\* field is optional, <<>> when the key is missing.
EpochBase == 1000

\* The elements of a JSON array as json.Unmarshal hands them out in an
\* interface{}: a string, or a float64 for a number.
JsonString(text) == [type |-> "string", text |-> text]

JsonNumber(text) == [type |-> "float64", text |-> text]

MetaDocs ==
    << [exp |-> <<EpochBase + 1>>, nonce |-> <<"n1">>, scopes |-> <<>>, audience |-> <<>>],
       [exp |-> <<>>, nonce |-> <<"n2">>, scopes |-> <<>>, audience |-> <<>>],
       [exp |-> <<EpochBase + 1>>, nonce |-> <<>>, scopes |-> << <<JsonString("read")>> >>, audience |-> <<"svc">>],
       [exp |-> <<>>, nonce |-> <<>>, scopes |-> <<>>, audience |-> <<>>] >>

\* json.Marshal(metadata): the JSON text of a document.
JsonMarshal(doc) == [json |-> TRUE, doc |-> doc]

\* A signed_metadata string that is no JSON object.
NotJson == [json |-> FALSE, doc |-> MetaDocs[4]]

\* json.Unmarshal([]byte(metaRaw), &meta)
JsonUnmarshal(str) == [err |-> ~str.json, meta |-> str.doc]

Domains == <<"example.com", "evil.example">>

\* The bytes of a string as the message code SHA-256 is applied to.
DomainBytes(domain) == 110 + 2 * (CHOOSE i \in 1..Len(Domains) : Domains[i] = domain)

MetaBytes(str) ==
    IF ~str.json THEN 119
    ELSE 120 + (CHOOSE i \in 1..Len(MetaDocs) : MetaDocs[i] = str.doc)

\* utils.Sha256 / crypto.Sha256Hex: lowercase hex of the digest
Sha256Hex(msg) == HexEncode(Sha256(msg))

(***************************************************************************)
(* Signal derivation (pkg/crypto, pkg/signals)                             *)
(***************************************************************************)

\* SplitHashToFieldElements(hexString): p1 = value AND mask128, p2 = value >> 128
SplitHashToFieldElements(hexString) ==
    LET fullValue == HexParse(hexString)
        p1Int == fullValue % Pow2(HalfBits)
        p2Int == (fullValue \div Pow2(HalfBits)) % Pow2(HalfBits)
    IN  <<SetBigInt(p1Int), SetBigInt(p2Int)>>

\* SplitMetadataHash(metaRaw)
SplitMetadataHash(metaRaw) == SplitHashToFieldElements(HexEncode(Sha256(MetaBytes(metaRaw))))

\* The SHA-256 of the string taken as it is, without the reduction into the field.
PoseidonHashStringUnreduced(domain) == Sha256(DomainBytes(domain))

\* PoseidonHashString(s): SHA-256 of the string, reduced into the field
PoseidonHashString(domain) == SetBigInt(Sha256(DomainBytes(domain)))

\* hashToBigInts(data): SetBytes(data[:16]), SetBytes(data[16:])
hashToBigInts(digest) == <<digest \div Pow2(HalfBits), digest % Pow2(HalfBits)>>

\* for _, sig := range signals { if sig.Cmp(v) == 0 { ... } }
ScanFor(signals, v) == \E i \in 1..Len(signals) : signals[i] = v

\* PTXSignals.VerifyAgainstProof(publicSignals)
VerifyAgainstProof(domain, metaRaw, trustMethod, publicSignals) ==
    LET parts   == hashToBigInts(Sha256(MetaBytes(metaRaw)))
        fqdnBig == Sha256(DomainBytes(domain))
        tm      == ScanFor(publicSignals, trustMethod)
        m1      == ScanFor(publicSignals, parts[1])
        m2      == ScanFor(publicSignals, parts[2])
    IN  [FqdnHash |-> ScanFor(publicSignals, fqdnBig),
         MetadataPart1 |-> m1, MetadataPart2 |-> m2, TrustMethod |-> tm,
         AllValid |-> tm /\ m1 /\ m2]

(***************************************************************************)
(* Groth16 (gnark, circom2gnark): an ideal proof system.  A proof is the   *)
(* record of the key it was made under and the public inputs it proves;    *)
(* it verifies under that key and those inputs and no others.              *)
(***************************************************************************)

\* DoHCircuit.Define: the two equality constraints over the assignment
\* <<nullifierHash, commitment, fqdn, p1, p2, trustMethod>>, nullifier, secret
DoHCircuitDefine(pub, nullifier, secret) ==
    With(Hash4(pub[3], pub[4], pub[5], pub[6]), LAMBDA contextHash :
    With(Hash1(nullifier), LAMBDA calcNullifierHash :
    With(Hash3(nullifier, secret, contextHash.val), LAMBDA calcCommitment :
        /\ contextHash.ok /\ calcNullifierHash.ok /\ calcCommitment.ok
        /\ pub[1] = calcNullifierHash.val
        /\ pub[2] = calcCommitment.val)))

\* fromString / fromStringV on the decimal string an element or an integer
\* was printed as (given here as the number printed), then the reduction
\* of frontend.NewWitness
fromString(sig) == SetBigInt(sig)

\* The value of a digit character, -1 for another character.
DigitOf(ch) ==
    CASE ch = "0" -> 0 [] ch = "1" -> 1 [] ch = "2" -> 2 [] ch = "3" -> 3 [] ch = "4" -> 4
      [] ch = "5" -> 5 [] ch = "6" -> 6 [] ch = "7" -> 7 [] ch = "8" -> 8 [] ch = "9" -> 9
      [] ch = "a" -> 10 [] ch = "b" -> 11 [] ch = "c" -> 12 [] ch = "d" -> 13
      [] ch = "e" -> 14 [] ch = "f" -> 15 [] OTHER -> -1

\* The digits of a number in a base, most significant first.
RECURSIVE ScanDigits(_, _, _)
ScanDigits(text, base, acc) ==
    IF Len(text) = 0 THEN [ok |-> TRUE, val |-> acc]
    ELSE IF DigitOf(text[1]) < 0 \/ DigitOf(text[1]) >= base THEN [ok |-> FALSE, val |-> 0]
    ELSE ScanDigits(Tail(text), base, acc * base + DigitOf(text[1]))

\* big.Int.SetString(s, base) for an unsigned number, the text given as its
\* characters.  Base 0 takes the base from the prefix: 0x is 16, 0b is 2,
\* 0o or a leading 0 is 8, otherwise 10.
BigIntSetString(text, base) ==
    IF Len(text) = 0 THEN [ok |-> FALSE, val |-> 0]
    ELSE IF base # 0 THEN ScanDigits(text, base, 0)
    ELSE IF Len(text) = 1 \/ text[1] # "0" THEN ScanDigits(text, 10, 0)
    ELSE IF text[2] = "x" THEN
            IF Len(text) = 2 THEN [ok |-> FALSE, val |-> 0] ELSE ScanDigits(Tail(Tail(text)), 16, 0)
    ELSE IF text[2] = "b" THEN
            IF Len(text) = 2 THEN [ok |-> FALSE, val |-> 0] ELSE ScanDigits(Tail(Tail(text)), 2, 0)
    ELSE IF text[2] = "o" THEN
            IF Len(text) = 2 THEN [ok |-> FALSE, val |-> 0] ELSE ScanDigits(Tail(Tail(text)), 8, 0)
    ELSE ScanDigits(Tail(text), 8, 0)

\* fr.Element.SetString(number): big.Int.SetString(number, 0), then
\* SetBigInt; the error is not looked at and leaves the element zero.
ElementSetString(text) ==
    With(BigIntSetString(text, 0), LAMBDA parsed :
        IF parsed.ok THEN SetBigInt(parsed.val) ELSE 0)

\* fromString on a string the caller supplied: big.Int.SetString(s, 10),
\* then the reduction of frontend.NewWitness.
fromStringText(text) ==
    With(BigIntSetString(text, 10), LAMBDA parsed :
        IF parsed.ok THEN SetBigInt(parsed.val) ELSE 0)

\* groth16.Prove(ccs, pk, witness): fails unless the assignment satisfies the circuit
Groth16Prove(pk, pub, nullifier, secret) ==
    IF DoHCircuitDefine(pub, nullifier, secret)
    THEN [err |-> FALSE, proof |-> [key |-> pk, pub |-> pub]]
    ELSE [err |-> TRUE, proof |-> [key |-> 0, pub |-> <<>>]]

\* groth16.Verify(proof, vk, publicWitness) == nil
Groth16Verify(proof, vk, publicWitness) == proof.key = vk /\ proof.pub = publicWitness

(***************************************************************************)
(* Key files (native.pk, native.vk); a key file holds the number of the    *)
(* Groth16 setup run that produced it, 0 when the file does not exist.     *)
(***************************************************************************)

\* loadOrSetupKeys(ccs): load both files if both exist, else Setup and save both
loadOrSetupKeys(pk, vk, fresh) ==
    IF vk # 0 /\ pk # 0
    THEN [pk |-> pk, vk |-> vk, pkFile |-> pk, vkFile |-> vk, nextKey |-> fresh]
    ELSE [pk |-> fresh, vk |-> fresh, pkFile |-> fresh, vkFile |-> fresh, nextKey |-> fresh + 1]

\* loadCachedVK(ccs): load native.vk if it exists, else Setup and save the new VK
loadCachedVK(vk, fresh) ==
    IF vk # 0
    THEN [vk |-> vk, vkFile |-> vk, nextKey |-> fresh]
    ELSE [vk |-> fresh, vkFile |-> fresh, nextKey |-> fresh + 1]

\* vk.LoadCircomKey("verification_key.json"): the key of the legacy circuit
CircomKeyId == 1000

(***************************************************************************)
(* Prover (pkg/prover)                                                     *)
(***************************************************************************)

NoProof == [key |-> 0, pub |-> <<>>]

\* Prover.GenerateCircuitInputs(domain, metadata, nullifier, secret, trustMethod)
GenerateCircuitInputs(domain, metadata, nullifier, secret, trustMethod) ==
    LET metaHex == Sha256Hex(MetaBytes(JsonMarshal(metadata)))
        parts == SplitHashToFieldElements(metaHex)
        fqdnFr == SetBigInt(Sha256(DomainBytes(domain)))
        tmFr == SetBigInt(trustMethod)
        nullifierFr == ElementSetString(nullifier)
        secretFr == ElementSetString(secret)
    IN  With(CircuitHash(<<fqdnFr, parts[1], parts[2], tmFr>>), LAMBDA contextHash :
        With(CircuitHash(<<nullifierFr, secretFr, contextHash.val>>), LAMBDA commitment :
        With(CircuitHash(<<nullifierFr>>), LAMBDA nullifierHash :
            [err |-> ~(contextHash.ok /\ commitment.ok /\ nullifierHash.ok),
             NullifierHash |-> nullifierHash.val, Commitment |-> commitment.val,
             Fqdn |-> fqdnFr, MetadataHashP1 |-> parts[1], MetadataHashP2 |-> parts[2],
             TrustMethod |-> trustMethod, Nullifier |-> nullifier, Secret |-> secret])))

\* publicSigs := []string{inputs.NullifierHash, inputs.Commitment, inputs.Fqdn, ...}
PublicSigs(inputs) ==
    <<inputs.NullifierHash, inputs.Commitment, inputs.Fqdn,
      inputs.MetadataHashP1, inputs.MetadataHashP2, inputs.TrustMethod>>

\* the assignment's public part: fromString of each input
PublicAssignment(inputs) ==
    <<fromString(inputs.NullifierHash), fromString(inputs.Commitment), fromString(inputs.Fqdn),
      fromString(inputs.MetadataHashP1), fromString(inputs.MetadataHashP2),
      fromString(inputs.TrustMethod)>>

\* Prover.GenerateProofNative(inputs) from the keys on: witness, Prove, the
\* envelope, the self-verification whose failure is only printed
ProveWithKeys(inputs, keys) ==
    With(Groth16Prove(keys.pk, PublicAssignment(inputs),
                      fromStringText(inputs.Nullifier), fromStringText(inputs.Secret)),
         LAMBDA proved :
        [err |-> proved.err,
         wrapper |-> [json |-> TRUE, source |-> "gnark_native",
                      publicSignals |-> PublicSigs(inputs),
                      proof |-> [circom |-> FALSE, obj |-> NoProof],
                      proofHex |-> [hex |-> TRUE, decodes |-> TRUE, obj |-> proved.proof]],
         selfVerified |-> Groth16Verify(proved.proof, keys.vk, PublicAssignment(inputs)),
         pkFile |-> keys.pkFile, vkFile |-> keys.vkFile, nextKey |-> keys.nextKey])

\* Prover.GenerateProofNative(inputs): the envelope, and the key files it leaves
GenerateProofNative(inputs, pk, vk, fresh) == ProveWithKeys(inputs, loadOrSetupKeys(pk, vk, fresh))

\* Prover.GenerateProof(inputs, wasm, zkey): snarkjs proves the legacy
\* circuit and writes the proof and the public signals it proved
GenerateProof(inputs) ==
    With(Groth16Prove(CircomKeyId, PublicAssignment(inputs),
                      fromStringText(inputs.Nullifier), fromStringText(inputs.Secret)),
         LAMBDA proved :
        [err |-> proved.err,
         wrapper |-> [json |-> TRUE, source |-> "",
                      publicSignals |-> PublicSigs(inputs),
                      proof |-> [circom |-> TRUE, obj |-> proved.proof],
                      proofHex |-> [hex |-> TRUE, decodes |-> FALSE, obj |-> NoProof]]])

\* Prover.CreatePtxFile(proofJSON, metadata, domain, trustMethod): the PtxFile
\* message (its container framing is LoadPTX's side, below)
CreatePtxFile(proofJSON, metadata, domain, trustMethod) ==
    [trustMethod |-> trustMethod,
     proof |-> <<[proofSystem |-> "GROTH16", verificationKeyId |-> "sdv_poseidon_v1",
                  proofData |-> proofJSON]>>,
     signedMetadata |-> JsonMarshal(metadata),
     doh |-> <<domain>>]

(***************************************************************************)
(* Proof verification (pkg/verifier)                                       *)
(***************************************************************************)

ZkResult(valid, skipped, semantic, error) ==
    [Valid |-> valid, Skipped |-> skipped, Semantic |-> semantic, Error |-> error]

NoSem == [FqdnHash |-> FALSE, MetadataPart1 |-> FALSE, MetadataPart2 |-> FALSE,
          TrustMethod |-> FALSE, AllValid |-> FALSE]

\* What a proof check leaves behind: its ZkResult, the semantic result it
\* computed (ran = FALSE when it did not get there), the public witness it
\* handed to Groth16 (<<>> when none was) and the key files.
ProofOutcome(zk, ran, sem, witness, vkFile, nextKey) ==
    [zk |-> zk, semRan |-> ran, sem |-> sem, witness |-> witness,
     vkFile |-> vkFile, nextKey |-> nextKey]

\* PTXVerifier.verifyCircomProof(proofJSON, publicSignals)
verifyCircomProof(proofJSON, publicSignals, sem, vk, fresh) ==
    IF ~proofJSON.circom
    THEN ProofOutcome(ZkResult(FALSE, FALSE, FALSE, "Invalid inner proof JSON"),
                      TRUE, sem, <<>>, vk, fresh)
    ELSE LET witness == [i \in 1..Len(publicSignals) |-> fromString(publicSignals[i])]
         IN  IF Groth16Verify(proofJSON.obj, CircomKeyId, witness)
             THEN ProofOutcome(ZkResult(TRUE, FALSE, TRUE, ""), TRUE, sem, witness, vk, fresh)
             ELSE ProofOutcome(ZkResult(FALSE, FALSE, FALSE, "Verification failed"),
                               TRUE, sem, witness, vk, fresh)

\* PTXVerifier.verifyNativeGnarkProof(proofHex, proofSignals, domain, metaRaw, trustMethod)
verifyNativeGnarkProof(proofHex, proofSignals, domain, metaRaw, trustMethod, sem, vk, fresh) ==
    IF ~proofHex.hex
    THEN ProofOutcome(ZkResult(FALSE, FALSE, FALSE, "Failed to decode proof hex"),
                      TRUE, sem, <<>>, vk, fresh)
    ELSE LET loaded == loadCachedVK(vk, fresh)
         IN  IF ~proofHex.decodes
             THEN ProofOutcome(ZkResult(FALSE, FALSE, FALSE, "Failed to deserialize proof"),
                               TRUE, sem, <<>>, loaded.vkFile, loaded.nextKey)
             ELSE IF Len(proofSignals) < 2
             THEN ProofOutcome(ZkResult(FALSE, FALSE, FALSE, "Insufficient public signals in proof"),
                               TRUE, sem, <<>>, loaded.vkFile, loaded.nextKey)
             ELSE LET parts == SplitMetadataHash(metaRaw)
                      witness == <<fromString(proofSignals[1]), fromString(proofSignals[2]),
                                   PoseidonHashString(domain), parts[1], parts[2],
                                   SetBigInt(trustMethod)>>
                  IN  IF Groth16Verify(proofHex.obj, loaded.vk, witness)
                      THEN ProofOutcome(ZkResult(TRUE, FALSE, TRUE, ""),
                                        TRUE, sem, witness, loaded.vkFile, loaded.nextKey)
                      ELSE ProofOutcome(ZkResult(FALSE, FALSE, FALSE, "Native Gnark verification failed"),
                                        TRUE, sem, witness, loaded.vkFile, loaded.nextKey)

\* ptxFile.GetDohDetails().GetDomainName(), "" without DoH details
DomainOf(ptxFile) == IF Len(ptxFile.doh) = 0 THEN "" ELSE ptxFile.doh[1]

\* PTXVerifier.verifyProof(ptxFile, metaRaw)
verifyProof(ptxFile, metaRaw, vk, fresh) ==
    IF Len(ptxFile.proof) = 0
    THEN ProofOutcome(ZkResult(FALSE, FALSE, FALSE, "No proof present"), FALSE, NoSem, <<>>, vk, fresh)
    ELSE IF ptxFile.proof[1].proofSystem # "GROTH16"
    THEN ProofOutcome(ZkResult(FALSE, TRUE, FALSE, "Unsupported Proof System (only Groth16 supported)"),
                      FALSE, NoSem, <<>>, vk, fresh)
    ELSE IF ~ptxFile.proof[1].proofData.json
    THEN ProofOutcome(ZkResult(FALSE, FALSE, FALSE, "Invalid proof wrapper JSON"),
                      FALSE, NoSem, <<>>, vk, fresh)
    ELSE LET wrapper == ptxFile.proof[1].proofData
             domain == DomainOf(ptxFile)
             semVerify == VerifyAgainstProof(domain, metaRaw, ptxFile.trustMethod,
                                             wrapper.publicSignals)
         IN  IF ~semVerify.AllValid
             THEN ProofOutcome(ZkResult(FALSE, FALSE, FALSE, "Semantic verification failed"),
                               TRUE, semVerify, <<>>, vk, fresh)
             ELSE IF wrapper.source = "gnark_native"
             THEN verifyNativeGnarkProof(wrapper.proofHex, wrapper.publicSignals, domain,
                                         metaRaw, ptxFile.trustMethod, semVerify, vk, fresh)
             ELSE verifyCircomProof(wrapper.proof, wrapper.publicSignals, semVerify, vk, fresh)

(***************************************************************************)
(* Hostname derivation (pkg/utils) and the DoH lookup (pkg/dns)            *)
(***************************************************************************)

alphabet ==
    <<"a", "b", "c", "d", "e", "f", "g", "h", "i", "j", "k", "l", "m", "n",
      "o", "p", "q", "r", "s", "t", "u", "v", "w", "x", "y", "z", "-">>

\* The digits in the order the loop appends them, least significant first.
RECURSIVE Base27DigitsUnreversed(_)
Base27DigitsUnreversed(n) ==
    IF n = 0 THEN <<>> ELSE <<alphabet[(n % 27) + 1]>> \o Base27DigitsUnreversed(n \div 27)

\* for n > 0 { n.DivMod(n, 27, mod); result = append(result, alphabet[mod]) }; reverse
RECURSIVE Base27Digits(_)
Base27Digits(n) ==
    IF n = 0 THEN <<>> ELSE Base27Digits(n \div 27) \o <<alphabet[(n % 27) + 1]>>

\* utils.Base27(hexStr)
utilsBase27(hexStr) ==
    LET n == HexParse(hexStr)
    IN  IF n = 0 THEN <<alphabet[1]>> ELSE Base27Digits(n)

\* A derivation that encodes the commitment itself, without hashing it.
utilsDeriveHostnameUnhashed(commitmentStr, domain) ==
    <<"x">> \o utilsBase27(HexEncode(commitmentStr % DigestSpace)) \o <<"x", ".">> \o <<domain>>

\* utils.DeriveHostnameFromCommitment(commitmentStr, domain): the 32-byte
\* little-endian buffer keeps the low 32 bytes of the commitment
utilsDeriveHostnameFromCommitment(commitmentStr, domain) ==
    LET bytes == commitmentStr % DigestSpace
        hashHex == HexEncode(Sha256(bytes))
    IN  <<"x">> \o utilsBase27(hashHex) \o <<"x", ".">> \o <<domain>>

\* crypto.Base27(n)
cryptoBase27(n) == IF n = 0 THEN <<alphabet[1]>> ELSE Base27Digits(n)

\* crypto.DeriveHostnameFromCommitment(commitment, domain): the bytes of the
\* element, reversed, hashed and encoded; the result is fmt.Sprintf("x%sx", encoded)
cryptoDeriveHostnameFromCommitment(commitment, domain) ==
    LET leBytes == SetBigInt(commitment)
        n == Sha256(leBytes)
    IN  <<"x">> \o cryptoBase27(n) \o <<"x">>

\* strings.Trim(ans.Data, "\"")
RECURSIVE TrimLeft(_)
TrimLeft(str) ==
    IF Len(str) > 0 /\ str[1] = "\"" THEN TrimLeft(Tail(str)) ELSE str

RECURSIVE TrimRight(_)
TrimRight(str) ==
    IF Len(str) > 0 /\ str[Len(str)] = "\"" THEN TrimRight(SubSeq(str, 1, Len(str) - 1)) ELSE str

Trim(str) == TrimRight(TrimLeft(str))

\* strings.Contains(record, expected)
Contains(record, expected) ==
    \E k \in 0..(Len(record) - Len(expected)) :
        SubSeq(record, k + 1, k + Len(expected)) = expected

\* A record list that keeps the answers of every type.
RECURSIVE TxtRecordsAnyType(_)
TxtRecordsAnyType(answer) ==
    IF Len(answer) = 0 THEN <<>>
    ELSE <<Trim(answer[1].data)>> \o TxtRecordsAnyType(Tail(answer))

\* the records of type 16 of dohResp.Answer, quotes stripped, in order
RECURSIVE TxtRecords(_)
TxtRecords(answer) ==
    IF Len(answer) = 0 THEN <<>>
    ELSE (IF answer[1].type = 16 THEN <<Trim(answer[1].data)>> ELSE <<>>)
         \o TxtRecords(Tail(answer))

\* dns.GetTXT(hostname), given the response of the DoH endpoint
GetTXT(resp) ==
    IF ~resp.reached THEN [err |-> TRUE, txt |-> <<>>]
    ELSE IF resp.code # 200 THEN [err |-> TRUE, txt |-> <<>>]
    ELSE IF resp.Status # 0 THEN [err |-> FALSE, txt |-> <<>>]
    ELSE [err |-> FALSE, txt |-> TxtRecords(resp.Answer)]

\* DnsResult: Error is the fixed text of the message, Expected the digest
\* formatted into it (<<>> when the message holds none)
DnsResult(valid, error, hostname) ==
    [Valid |-> valid, Error |-> error, DerivedHostname |-> hostname, Expected |-> <<>>]

\* the name verifyDNS queries, <<>> when it returns before the lookup
DnsQueryName(ptxFile) ==
    IF Len(ptxFile.doh) = 0 \/ Len(ptxFile.proof) = 0 THEN <<>>
    ELSE IF ~ptxFile.proof[1].proofData.json THEN <<>>
    ELSE IF Len(ptxFile.proof[1].proofData.publicSignals) < 2 THEN <<>>
    ELSE utilsDeriveHostnameFromCommitment(ptxFile.proof[1].proofData.publicSignals[2],
                                           ptxFile.doh[1])

\* PTXVerifier.verifyDNS(ptxFile), given the response to its one query
verifyDNS(ptxFile, resp) ==
    IF Len(ptxFile.doh) = 0 THEN DnsResult(FALSE, "No DoH details found", <<>>)
    ELSE IF Len(ptxFile.proof) = 0
    THEN DnsResult(FALSE, "No proof found for commitment extraction", <<>>)
    ELSE IF ~ptxFile.proof[1].proofData.json
    THEN DnsResult(FALSE, "Failed to parse proof public signals", <<>>)
    ELSE IF Len(ptxFile.proof[1].proofData.publicSignals) < 2
    THEN DnsResult(FALSE, "Insufficient public signals for commitment extraction", <<>>)
    ELSE LET commitment == ptxFile.proof[1].proofData.publicSignals[2]
             hostname == utilsDeriveHostnameFromCommitment(commitment, ptxFile.doh[1])
             expected == Sha256Hex(MetaBytes(ptxFile.signedMetadata))
             got == GetTXT(resp)
         IN  IF got.err THEN DnsResult(FALSE, "DNS Lookup failed", hostname)
             ELSE IF \E k \in 1..Len(got.txt) : Contains(got.txt[k], expected)
             THEN DnsResult(TRUE, "", hostname)
             ELSE [DnsResult(FALSE, "No matching TXT record found", hostname)
                      EXCEPT !.Expected = expected]

\* The DoH endpoint's answer for a name, from the TXT records published in
\* the zone: NXDOMAIN (Status 3) when the name has none.
DoHAnswer(zone, hostname) ==
    LET data == {r \in zone : r.name = hostname}
    IN  IF data = {} THEN [reached |-> TRUE, code |-> 200, Status |-> 3, Answer |-> <<>>]
        ELSE [reached |-> TRUE, code |-> 200, Status |-> 0,
              Answer |-> <<[type |-> 16, data |-> (CHOOSE r \in data : TRUE).data]>>]

\* The responses of a resolver that is down: no connection, a server error.
DoHOutages ==
    { [reached |-> FALSE, code |-> 0, Status |-> 0, Answer |-> <<>>],
      [reached |-> TRUE, code |-> 500, Status |-> 0, Answer |-> <<>>] }

\* The responses the network can give instead of the zone's answer: an
\* outage, SERVFAIL, and an answer that holds no TXT record.
DoHFailures ==
    DoHOutages \cup
    { [reached |-> TRUE, code |-> 200, Status |-> 2, Answer |-> <<>>],
      [reached |-> TRUE, code |-> 200, Status |-> 0,
       Answer |-> <<[type |-> 5, data |-> <<"c", "n">>]>>] }

\* The TXT record that anchors a token: the hostname derived from its
\* commitment, holding the quoted hex SHA-256 of its signed metadata.
AnchorRecord(commitment, domain, metaRaw) ==
    [name |-> utilsDeriveHostnameFromCommitment(commitment, domain),
     data |-> <<"\"">> \o Sha256Hex(MetaBytes(metaRaw)) \o <<"\"">>]

(***************************************************************************)
(* Replay store (pkg/nonce) over Redis                                     *)
(***************************************************************************)

NoEntry == [present |-> FALSE, persist |-> FALSE, deadline |-> 0]

\* A store whose SetNX overwrites: it answers "new" whether or not the key is held.
SetNXOverwrites(kv, key, ttl, clock) ==
    [isNew |-> TRUE,
     kv |-> [kv EXCEPT ![key] = [present |-> TRUE, persist |-> (ttl = 0), deadline |-> clock + ttl]]]

\* client.SetNX(ctx, key, "1", ttl): SET key NX EX ttl, and plain SETNX (a
\* key without expiry) when ttl is zero
SetNX(kv, key, ttl, clock) ==
    IF kv[key].present
    THEN [isNew |-> FALSE, kv |-> kv]
    ELSE [isNew |-> TRUE,
          kv |-> [kv EXCEPT ![key] = [present |-> TRUE, persist |-> (ttl = 0),
                                      deadline |-> clock + ttl]]]

\* A CheckAndSetNonce without the expiry guard before the store call.
CheckAndSetNonceBeginUnguarded(expirationTimestamp, clock) ==
    [expired |-> FALSE, ttl |-> expirationTimestamp - clock]

\* CheckAndSetNonce up to the store call: now := time.Now().Unix();
\* if expirationTimestamp < now { return false, nil }; ttl := expirationTimestamp - now
CheckAndSetNonceBegin(expirationTimestamp, clock) ==
    [expired |-> expirationTimestamp < clock, ttl |-> expirationTimestamp - clock]

\* CheckAndSetNonce from the store call on: (isNew, nil), or (false, err)
CheckAndSetNonceStore(kv, key, ttl, clock, reachable) ==
    IF ~reachable THEN [valid |-> FALSE, err |-> TRUE, kv |-> kv]
    ELSE LET r == SetNX(kv, key, ttl, clock)
         IN  [valid |-> r.isNew, err |-> FALSE, kv |-> r.kv]

\* The entries Redis has dropped by the time the clock reads `clock`.
Expired(kv, clock) ==
    [k \in DOMAIN kv |->
        IF kv[k].present /\ ~kv[k].persist /\ kv[k].deadline < clock THEN NoEntry ELSE kv[k]]

(***************************************************************************)
(* Verification engine (pkg/verifier): PTXVerifier.Verify                  *)
(***************************************************************************)

NoDns == DnsResult(FALSE, "", <<>>)

NoZk == ZkResult(FALSE, FALSE, FALSE, "")

\* res := &VerificationResult{Success: true, Errors: []string{}}
NewResult ==
    [fatal |-> FALSE, panicked |-> FALSE, Success |-> TRUE, Errors |-> <<>>, Dns |-> NoDns, Zk |-> NoZk]

\* return nil, fmt.Errorf("failed to load PTX file: %w", err)
LoadError == [NewResult EXCEPT !.fatal = TRUE, !.Success = FALSE]

\* A run-time panic ends Verify without a result.
Panic == [NewResult EXCEPT !.fatal = TRUE, !.panicked = TRUE, !.Success = FALSE]

\* res.Success = false; res.Errors = append(res.Errors, msg)
Fail(res, msg) == [res EXCEPT !.Success = FALSE, !.Errors = Append(@, msg)]

\* var exp int64 = 300
DefaultExp == 300

\* redis.ParseURL(url) succeeds
ParseURLOk(url) == url = "redis://store"

\* Verify, the expiration check
CheckExpiration(res, meta, clock) ==
    IF Len(meta.exp) > 0 /\ clock > meta.exp[1] THEN Fail(res, "PTX token expired") ELSE res

\* Verify, the scope check: s.(string) panics on an element that is no
\* string, in the first round of the inner loop
CheckScope(res, meta, opts) ==
    IF Len(opts.IntendedScope) > 0 /\ Len(meta.scopes) > 0
    THEN LET scopes == meta.scopes[1]
             found == \E a \in 1..Len(scopes) : \E b \in 1..Len(opts.IntendedScope) :
                          scopes[a].text = opts.IntendedScope[b]
         IN  IF \E a \in 1..Len(scopes) : scopes[a].type # "string" THEN Panic
             ELSE IF ~found THEN Fail(res, "Scope mismatch") ELSE res
    ELSE res

\* Verify, the audience check
CheckAudience(res, meta, opts) ==
    IF Len(opts.IntendedAudience) > 0 /\ Len(meta.audience) > 0
    THEN LET found == \E b \in 1..Len(opts.IntendedAudience) :
                          meta.audience[1] = opts.IntendedAudience[b]
         IN  IF ~found THEN Fail(res, "Audience mismatch") ELSE res
    ELSE res

\* Verify from its start to the nonce check: [res, returned]
VerifyPolicy(ptxFile, opts, clock) ==
    LET parsed == JsonUnmarshal(ptxFile.signedMetadata)
    IN  IF parsed.err
        THEN [res |-> Fail(NewResult, "Invalid metadata JSON"), returned |-> TRUE]
        ELSE LET scoped == CheckScope(CheckExpiration(NewResult, parsed.meta, clock),
                                      parsed.meta, opts)
             IN  IF scoped.panicked THEN [res |-> scoped, returned |-> TRUE]
                 ELSE [res |-> CheckAudience(scoped, parsed.meta, opts), returned |-> FALSE]

\* A DNS check whose failure is recorded but does not clear Success.
ApplyDnsAdvisory(res, dns) == [res EXCEPT !.Dns = dns]

\* Verify, the DNS check: res.Dns = v.verifyDNS(ptxFile); if !res.Dns.Valid { res.Success = false }
ApplyDns(res, dns) ==
    [res EXCEPT !.Dns = dns, !.Success = IF ~dns.Valid THEN FALSE ELSE @]

\* Verify, the proof check: res.Zk = ...; if !res.Zk.Valid && !res.Zk.Skipped { fail }
ApplyZk(res, zk) ==
    IF ~zk.Valid /\ ~zk.Skipped
    THEN Fail([res EXCEPT !.Zk = zk], "ZK proof invalid")
    ELSE [res EXCEPT !.Zk = zk]

\* Verify from the DNS check to its return (the Details it fills in are
\* derived output and are left out)
VerifyChecks(res, ptxFile, resp, vk, fresh) ==
    LET dns == verifyDNS(ptxFile, resp)
        out == verifyProof(ptxFile, ptxFile.signedMetadata, vk, fresh)
    IN  [res |-> ApplyZk(ApplyDns(res, dns), out.zk), out |-> out]

(***************************************************************************)
(* Container loader (pkg/ptxloader)                                        *)
(***************************************************************************)

\* var MagicHeader = []byte{0x50, 0x54, 0x58, 0x01}
MagicHeader == <<80, 84, 88, 1>>

\* proto.Unmarshal(payload, ptxFile): the protobuf wire format, one byte per
\* tag, varint and length.  Field 1 (trust_method) is a varint; a field
\* number 0, a group or reserved wire type, or a value running past the end
\* of the payload is a decoding error; other fields are kept as read.
RECURSIVE ProtoFields(_)
ProtoFields(payload) ==
    IF Len(payload) = 0 THEN [err |-> FALSE, fields |-> <<>>]
    ELSE LET tag == payload[1]
             field == tag \div 8
             wire == tag % 8
             size == CASE wire = 0 -> 1
                       [] wire = 1 -> 8
                       [] wire = 5 -> 4
                       [] wire = 2 -> IF Len(payload) >= 2 THEN 1 + payload[2] ELSE 1
                       [] OTHER -> 0
         IN  IF field = 0 \/ size = 0 \/ tag >= 128 \/ Len(payload) < 1 + size
             THEN [err |-> TRUE, fields |-> <<>>]
             ELSE LET rest == ProtoFields(SubSeq(payload, 2 + size, Len(payload)))
                  IN  [err |-> rest.err,
                       fields |-> IF rest.err THEN <<>>
                                  ELSE <<[field |-> field, wire |-> wire,
                                          value |-> SubSeq(payload, 2, 1 + size)]>> \o rest.fields]

\* The fields of one message number and wire type, in the order read.
RECURSIVE FieldsOf(_, _, _)
FieldsOf(fields, number, wire) ==
    IF Len(fields) = 0 THEN <<>>
    ELSE (IF fields[1].field = number /\ fields[1].wire = wire THEN <<fields[1]>> ELSE <<>>)
         \o FieldsOf(Tail(fields), number, wire)

\* A singular scalar or bytes field: the last occurrence read, the length
\* byte of a bytes field dropped; none is the default of the type.
ScalarOf(fields, number, none) ==
    LET seen == FieldsOf(fields, number, 0)
    IN  IF Len(seen) = 0 THEN none ELSE seen[Len(seen)].value[1]

BytesOf(fields, number) ==
    LET seen == FieldsOf(fields, number, 2)
    IN  IF Len(seen) = 0 THEN <<>> ELSE Tail(seen[Len(seen)].value)

\* Whether an embedded message field holds bytes that are not a message.
NestedErr(fields, number) ==
    \E i \in 1..Len(fields) :
        /\ fields[i].field = number /\ fields[i].wire = 2
        /\ ProtoFields(Tail(fields[i].value)).err

\* proto.Unmarshal(payload, ptxFile): PtxFile has trust_method = 1 (enum),
\* proof = 2 (ZkProof: proof_system = 1, verification_key_id = 2,
\* proof_data = 3), signed_metadata = 3 and doh_details = 4 (DohAnchor:
\* domain_name = 1).
ProtoUnmarshal(payload) ==
    LET top == ProtoFields(payload)
    IN  IF top.err THEN top
        ELSE IF NestedErr(top.fields, 2) \/ NestedErr(top.fields, 4)
        THEN [err |-> TRUE, fields |-> <<>>]
        ELSE top

\* The message as its getters give it: GetTrustMethod, GetProof,
\* GetSignedMetadata, GetDohDetails.
PtxFileOf(fields) ==
    LET proof == ProtoFields(BytesOf(fields, 2)).fields
        doh == ProtoFields(BytesOf(fields, 4)).fields
    IN  [trustMethod |-> ScalarOf(fields, 1, 0),
         proof |-> IF Len(FieldsOf(fields, 2, 2)) = 0 THEN <<>>
                   ELSE <<[proofSystem |-> ScalarOf(proof, 1, 0),
                           verificationKeyId |-> BytesOf(proof, 2),
                           proofData |-> BytesOf(proof, 3)]>>,
         signedMetadata |-> BytesOf(fields, 3),
         doh |-> IF Len(FieldsOf(fields, 4, 2)) = 0 THEN <<>>
                 ELSE <<BytesOf(doh, 1)>>]

\* proto.Marshal of a scalar, bytes or embedded message field: a field
\* holding the default of its type is not written.
MarshalScalar(number, v) == IF v = 0 THEN <<>> ELSE <<8 * number, v>>

MarshalBytes(number, bytes) ==
    IF Len(bytes) = 0 THEN <<>> ELSE <<8 * number + 2, Len(bytes)>> \o bytes

MarshalMessage(number, present, inner) ==
    IF ~present THEN <<>> ELSE <<8 * number + 2, Len(inner)>> \o inner

\* proto.Marshal(ptxFile)
ProtoMarshal(ptxFile) ==
    MarshalScalar(1, ptxFile.trustMethod)
    \o MarshalMessage(2, Len(ptxFile.proof) > 0,
          IF Len(ptxFile.proof) = 0 THEN <<>>
          ELSE MarshalScalar(1, ptxFile.proof[1].proofSystem)
               \o MarshalBytes(2, ptxFile.proof[1].verificationKeyId)
               \o MarshalBytes(3, ptxFile.proof[1].proofData))
    \o MarshalBytes(3, ptxFile.signedMetadata)
    \o MarshalMessage(4, Len(ptxFile.doh) > 0,
          IF Len(ptxFile.doh) = 0 THEN <<>> ELSE MarshalBytes(1, ptxFile.doh[1]))

\* The container CreatePtxFile returns for a message: magic, the envelope
\* byte, the serialized message.
ContainerBytes(envelope, ptxFile) == MagicHeader \o <<envelope>> \o ProtoMarshal(ptxFile)

\* A loader that takes the payload to start right after the magic.
LoadPTXSkipFour(found, data) ==
    IF ~found
    THEN [kind |-> "error", msg |-> "open: no such file or directory", fields |-> <<>>]
    ELSE IF Len(data) < 4 \/ SubSeq(data, 1, 4) # MagicHeader
    THEN [kind |-> "error", msg |-> "invalid PTX magic header", fields |-> <<>>]
    ELSE LET parsed == ProtoUnmarshal(SubSeq(data, 5, Len(data)))
         IN  IF parsed.err
             THEN [kind |-> "error", msg |-> "failed to parse PTX protobuf", fields |-> <<>>]
             ELSE [kind |-> "record", msg |-> "", fields |-> parsed.fields]

\* LoadPTX(filePath), given whether the file can be read and the bytes read
\* from it: "record" with the decoded fields, "error", or "panic" when the
\* slice expression data[5:] is out of range
LoadPTX(found, data) ==
    IF ~found
    THEN [kind |-> "error", msg |-> "open: no such file or directory", fields |-> <<>>]
    ELSE IF Len(data) < 4 \/ SubSeq(data, 1, 4) # MagicHeader
    THEN [kind |-> "error", msg |-> "invalid PTX magic header", fields |-> <<>>]
    ELSE IF 5 > Len(data)
    THEN [kind |-> "panic", msg |-> "slice bounds out of range [5:4]", fields |-> <<>>]
    ELSE LET parsed == ProtoUnmarshal(SubSeq(data, 6, Len(data)))
         IN  IF parsed.err
             THEN [kind |-> "error", msg |-> "failed to parse PTX protobuf", fields |-> <<>>]
             ELSE [kind |-> "record", msg |-> "", fields |-> parsed.fields]

(***************************************************************************)
(* The tokens and options the engine is run on                             *)
(***************************************************************************)

\* The token an honest prover builds, with the key files of a first run.
HonestPtx(domain, metadata, nullifier, secret, trustMethod, legacy) ==
    With(GenerateCircuitInputs(domain, metadata, nullifier, secret, trustMethod), LAMBDA inputs :
    With(IF legacy THEN GenerateProof(inputs).wrapper
         ELSE GenerateProofNative(inputs, 0, 0, 1).wrapper, LAMBDA wrapper :
        CreatePtxFile(wrapper, metadata, domain, trustMethod)))

EngineTokens ==
    With(HonestPtx(Domains[1], MetaDocs[1], <<"1">>, <<"2">>, 1, FALSE), LAMBDA t1 :
    With(HonestPtx(Domains[1], MetaDocs[2], <<"1">>, <<"2">>, 1, FALSE), LAMBDA t2 :
    With(HonestPtx(Domains[1], MetaDocs[3], <<"1">>, <<"2">>, 1, FALSE), LAMBDA t3 :
        << [load |-> TRUE, ptx |-> t1],
           [load |-> TRUE, ptx |-> t2],
           [load |-> TRUE, ptx |-> t3],
           [load |-> TRUE, ptx |-> [t1 EXCEPT !.proof[1].proofSystem = "PLONK"]],
           [load |-> TRUE, ptx |-> [t1 EXCEPT !.proof[1].proofData.proofHex.obj = NoProof]],
           [load |-> TRUE, ptx |-> [t1 EXCEPT !.signedMetadata = NotJson]],
           [load |-> FALSE, ptx |-> t1] >>)))

EngineOptions ==
    << [IntendedScope |-> <<>>, IntendedAudience |-> <<>>, RedisURL |-> "redis://store"],
       [IntendedScope |-> <<>>, IntendedAudience |-> <<>>, RedisURL |-> ""],
       [IntendedScope |-> <<"write">>, IntendedAudience |-> <<"svc">>, RedisURL |-> "redis://store"],
       [IntendedScope |-> <<>>, IntendedAudience |-> <<>>, RedisURL |-> "redis:/ /store"] >>

\* The Verify calls made: a token and the options it is verified under.
EngineRuns ==
    << [tok |-> 1, opt |-> 1], [tok |-> 1, opt |-> 2], [tok |-> 1, opt |-> 4],
       [tok |-> 2, opt |-> 1], [tok |-> 3, opt |-> 3], [tok |-> 4, opt |-> 1],
       [tok |-> 5, opt |-> 2], [tok |-> 6, opt |-> 2], [tok |-> 7, opt |-> 2] >>

\* The TXT records published for the honest tokens.
EngineZone ==
    { AnchorRecord(t.ptx.proof[1].proofData.publicSignals[2], t.ptx.doh[1], t.ptx.signedMetadata) :
        t \in {EngineTokens[k] : k \in 1..3} }

Nonces == {"n1", "n2"}

(***************************************************************************)
(* Bounds                                                                  *)
(***************************************************************************)

\* Seconds the clock advances past EpochBase.
MaxTick == 2

\* Verify calls in one behaviour.
MaxCalls == 2

\* The callers of Verify, running concurrently.
Procs == {"a", "b"}

(***************************************************************************)
(* State                                                                   *)
(***************************************************************************)

VARIABLES
    now,        \* time.Now().Unix()
    store,      \* the Redis keyspace: nonce -> entry
    vkFile,     \* native.vk
    pkFile,     \* native.pk
    nextKey,    \* the number the next Groth16 setup run gets
    zone,       \* the TXT records published in DNS
    issued,     \* the token files in circulation
    pc,         \* per Verify call: where it stands
    tok,        \* per Verify call: the token (index into EngineTokens)
    opt,        \* per Verify call: the options (index into EngineOptions)
    res,        \* per Verify call: its VerificationResult
    ttl,        \* per Verify call: the ttl CheckAndSetNonce computed
    calls,      \* Verify calls started
    fresh,      \* per nonce: store calls answered true since the entry was created
    replayed,   \* per nonce: store calls answered false since the entry was created
    succ,       \* per token: Verify calls with a replay store that returned Success
    zPc,        \* the prover and verifier run: where it stands
    zArgs,      \* the prover's arguments
    zInputs,    \* the CircuitInputs the prover computed
    zWrapper,   \* the proof envelope the prover wrote
    zPtx,       \* the token file
    zTamper,    \* the publicSignals entry raised by one (0: none)
    zRes,       \* the VerificationResult of the last Verify on the token
    zOut,       \* what the proof check of that Verify left behind
    fileData,   \* the bytes of a file handed to LoadPTX
    loadRes,    \* what LoadPTX made of them
    hIn,        \* the input vector handed to the two Poseidon implementations
    hScalar,    \* what PoseidonHash returned for it
    hCircuit,   \* what NewHasher and Hasher.Hash returned for it
    kPc,        \* per key-file user: where its loadOrSetupKeys / loadCachedVK call stands
    kKey,       \* per key-file user: the keys it holds in memory
    kOut,       \* what the prover's GenerateProofNative returned
    kRuns,      \* per key-file user: calls started
    dCommitment, \* the commitment a hostname is derived from
    dParent,    \* the parent domain
    dUtils,     \* what utils.DeriveHostnameFromCommitment returned
    dCrypto,    \* what crypto.DeriveHostnameFromCommitment returned
    qIn,        \* the arguments of a library call
    qOut        \* what the call returned

replayVars == <<store, issued, pc, tok, opt, res, ttl, calls, fresh, replayed, succ>>

zkVars == <<zPc, zArgs, zInputs, zWrapper, zPtx, zTamper, zRes, zOut>>

loadVars == <<fileData, loadRes>>

hashVars == <<hIn, hScalar, hCircuit>>

keyVars == <<kPc, kKey, kOut, kRuns>>

hostVars == <<dCommitment, dParent, dUtils, dCrypto>>

callVars == <<qIn, qOut>>

auxVars == <<hashVars, keyVars, hostVars, callVars>>

vars == <<now, vkFile, pkFile, nextKey, zone, replayVars, zkVars, loadVars, auxVars>>

\* No Verify call is running against the replay store.
ReplayIdle ==
    /\ store = [n \in Nonces |-> NoEntry]
    /\ pc = [p \in Procs |-> "idle"]
    /\ tok = [p \in Procs |-> 1]
    /\ opt = [p \in Procs |-> 1]
    /\ res = [p \in Procs |-> NewResult]
    /\ ttl = [p \in Procs |-> 0]
    /\ calls = 0
    /\ fresh = [n \in Nonces |-> 0]
    /\ replayed = [n \in Nonces |-> 0]
    /\ succ = [t \in 1..Len(EngineTokens) |-> 0]

NoArgs == [domain |-> "", metadata |-> MetaDocs[4], nullifier |-> <<>>, secret |-> <<>>,
           trustMethod |-> 0, legacy |-> FALSE]

NoInputs == [err |-> TRUE, NullifierHash |-> 0, Commitment |-> 0, Fqdn |-> 0,
             MetadataHashP1 |-> 0, MetadataHashP2 |-> 0, TrustMethod |-> 0,
             Nullifier |-> <<>>, Secret |-> <<>>]

NoWrapper == [json |-> FALSE, source |-> "", publicSignals |-> <<>>,
              proof |-> [circom |-> FALSE, obj |-> NoProof],
              proofHex |-> [hex |-> FALSE, decodes |-> FALSE, obj |-> NoProof]]

NoPtx == [trustMethod |-> 0, proof |-> <<>>, signedMetadata |-> NotJson, doh |-> <<>>]

NoOutcome == ProofOutcome(NoZk, FALSE, NoSem, <<>>, 0, 0)

\* No prover run is under way.
ZkIdle ==
    /\ zPc = "off"
    /\ zArgs = NoArgs
    /\ zInputs = NoInputs
    /\ zWrapper = NoWrapper
    /\ zPtx = NoPtx
    /\ zTamper = 0
    /\ zRes = NewResult
    /\ zOut = NoOutcome

\* No file is being loaded.
LoadIdle ==
    /\ fileData = <<>>
    /\ loadRes = [kind |-> "none", msg |-> "", fields |-> <<>>]

NoHash == [kind |-> "none", val |-> 0]

\* No hash is being computed.
HashIdle ==
    /\ hIn = <<>>
    /\ hScalar = NoHash
    /\ hCircuit = NoHash

KeyUsers == {"prover", "verifier"}

NoKeys == [pk |-> 0, vk |-> 0]

NoReturn == [returned |-> FALSE, err |-> FALSE, selfVerified |-> FALSE, wrapper |-> NoWrapper]

\* No key-file user is running.
KeyIdle ==
    /\ kPc = [u \in KeyUsers |-> "idle"]
    /\ kKey = [u \in KeyUsers |-> NoKeys]
    /\ kOut = NoReturn
    /\ kRuns = [u \in KeyUsers |-> 0]

NoHostname == [kind |-> "none", name |-> <<>>]

\* No hostname is being derived.
HostIdle ==
    /\ dCommitment = 0
    /\ dParent = ""
    /\ dUtils = NoHostname
    /\ dCrypto = NoHostname

NoCall == [kind |-> "none"]

\* No library call is being made.
CallIdle ==
    /\ qIn = NoCall
    /\ qOut = NoCall

AuxIdle == HashIdle /\ KeyIdle /\ HostIdle /\ CallIdle

Init ==
    /\ now = EpochBase
    /\ vkFile = 1
    /\ pkFile = 1
    /\ nextKey = 2
    /\ zone = EngineZone
    /\ issued = EngineTokens
    /\ ReplayIdle
    /\ ZkIdle
    /\ LoadIdle
    /\ AuxIdle

PtxOf(p) == issued[tok[p]].ptx

OptsOf(p) == EngineOptions[opt[p]]

MetaOf(p) == JsonUnmarshal(PtxOf(p).signedMetadata).meta

\* Verify is called: LoadPTX, the metadata parse and the policy checks.
VerifyStart(p, run) ==
    /\ pc[p] = "idle"
    /\ calls < MaxCalls
    /\ calls' = calls + 1
    /\ tok' = [tok EXCEPT ![p] = run.tok]
    /\ opt' = [opt EXCEPT ![p] = run.opt]
    /\ IF ~issued[run.tok].load
       THEN /\ res' = [res EXCEPT ![p] = LoadError]
            /\ pc' = [pc EXCEPT ![p] = "done"]
       ELSE LET pol == VerifyPolicy(issued[run.tok].ptx, EngineOptions[run.opt], now)
            IN  /\ res' = [res EXCEPT ![p] = pol.res]
                /\ pc' = [pc EXCEPT ![p] = IF pol.returned THEN "done" ELSE "nonce"]
    /\ UNCHANGED <<auxVars, zkVars, loadVars, now, store, vkFile, pkFile, nextKey, zone, issued, ttl, fresh, replayed, succ>>

\* Verify, the nonce check up to the store call.
NonceBegin(p) ==
    /\ pc[p] = "nonce"
    /\ IF OptsOf(p).RedisURL = "" \/ Len(MetaOf(p).nonce) = 0
       THEN /\ pc' = [pc EXCEPT ![p] = "checks"]
            /\ UNCHANGED <<res, ttl>>
       ELSE IF ~ParseURLOk(OptsOf(p).RedisURL)
       THEN /\ res' = [res EXCEPT ![p] = Fail(@, "Failed to connect to nonce store")]
            /\ pc' = [pc EXCEPT ![p] = "done"]
            /\ UNCHANGED ttl
       ELSE LET exp == IF Len(MetaOf(p).exp) > 0 THEN MetaOf(p).exp[1] ELSE DefaultExp
                begun == CheckAndSetNonceBegin(exp, now)
            IN  IF begun.expired
                THEN /\ res' = [res EXCEPT ![p] = Fail(@, "Nonce invalid or replayed")]
                     /\ pc' = [pc EXCEPT ![p] = "checks"]
                     /\ UNCHANGED ttl
                ELSE /\ ttl' = [ttl EXCEPT ![p] = begun.ttl]
                     /\ pc' = [pc EXCEPT ![p] = "setnx"]
                     /\ UNCHANGED res
    /\ UNCHANGED <<auxVars, zkVars, loadVars, now, store, vkFile, pkFile, nextKey, zone, issued, tok, opt, calls, fresh, replayed, succ>>

\* Verify, the store call of CheckAndSetNonce and the test of its answer.
NonceSetNX(p, reachable) ==
    /\ pc[p] = "setnx"
    /\ LET key == MetaOf(p).nonce[1]
           r == CheckAndSetNonceStore(store, key, ttl[p], now, reachable)
       IN  /\ store' = r.kv
           /\ res' = [res EXCEPT ![p] = IF r.err \/ ~r.valid
                                        THEN Fail(@, "Nonce invalid or replayed") ELSE @]
           /\ fresh' = [fresh EXCEPT ![key] = IF ~r.err /\ r.valid THEN @ + 1 ELSE @]
           /\ replayed' = [replayed EXCEPT ![key] = IF ~r.err /\ ~r.valid THEN @ + 1 ELSE @]
    /\ ttl' = [ttl EXCEPT ![p] = 0]
    /\ pc' = [pc EXCEPT ![p] = "checks"]
    /\ UNCHANGED <<auxVars, zkVars, loadVars, now, vkFile, pkFile, nextKey, zone, issued, tok, opt, calls, succ>>

\* Verify, the DNS check and the proof check, to its return.
Checks(p, resp) ==
    /\ pc[p] = "checks"
    /\ LET done == VerifyChecks(res[p], PtxOf(p), resp, vkFile, nextKey)
       IN  /\ res' = [res EXCEPT ![p] = done.res]
           /\ vkFile' = done.out.vkFile
           /\ nextKey' = done.out.nextKey
           /\ succ' = [succ EXCEPT ![tok[p]] =
                          IF done.res.Success /\ OptsOf(p).RedisURL # "" THEN @ + 1 ELSE @]
    /\ pc' = [pc EXCEPT ![p] = "done"]
    /\ UNCHANGED <<auxVars, zkVars, loadVars, now, store, pkFile, zone, issued, tok, opt, ttl, calls, fresh, replayed>>

\* The caller takes the result.
Return(p) ==
    /\ pc[p] = "done"
    /\ pc' = [pc EXCEPT ![p] = "idle"]
    /\ res' = [res EXCEPT ![p] = NewResult]
    /\ tok' = [tok EXCEPT ![p] = 1]
    /\ opt' = [opt EXCEPT ![p] = 1]
    /\ UNCHANGED <<auxVars, zkVars, loadVars, now, store, vkFile, pkFile, nextKey, zone, issued, ttl, calls, fresh, replayed, succ>>

\* A second passes; Redis has dropped every entry whose ttl ran out before it.
Tick ==
    /\ now < EpochBase + MaxTick
    /\ now' = now + 1
    /\ store' = Expired(store, now + 1)
    /\ fresh' = [n \in Nonces |-> IF Expired(store, now + 1)[n].present THEN fresh[n] ELSE 0]
    /\ replayed' = [n \in Nonces |-> IF Expired(store, now + 1)[n].present THEN replayed[n] ELSE 0]
    /\ UNCHANGED <<auxVars, zkVars, loadVars, vkFile, pkFile, nextKey, zone, issued, pc, tok, opt, res, ttl, calls, succ>>

\* Redis drops an entry during the second in which its ttl runs out.
Expire(n) ==
    /\ store[n].present /\ ~store[n].persist /\ store[n].deadline <= now
    /\ store' = [store EXCEPT ![n] = NoEntry]
    /\ fresh' = [fresh EXCEPT ![n] = 0]
    /\ replayed' = [replayed EXCEPT ![n] = 0]
    /\ UNCHANGED <<auxVars, zkVars, loadVars, now, vkFile, pkFile, nextKey, zone, issued, pc, tok, opt, res, ttl, calls, succ>>

Next ==
    \/ \E p \in Procs : \E r \in 1..Len(EngineRuns) : VerifyStart(p, EngineRuns[r])
    \/ \E p \in Procs : NonceBegin(p)
    \/ \E p \in Procs : \E reachable \in BOOLEAN : NonceSetNX(p, reachable)
    \/ \E p \in Procs : Checks(p, DoHAnswer(zone, DnsQueryName(PtxOf(p))))
    \/ \E p \in Procs : \E resp \in DoHFailures : Checks(p, resp)
    \/ \E p \in Procs : Return(p)
    \/ Tick
    \/ \E n \in Nonces : Expire(n)

Spec == Init /\ [][Next]_vars

(***************************************************************************)
(* A prover run and the verification of its token: GenerateCircuitInputs,  *)
(* GenerateProofNative or GenerateProof, CreatePtxFile and the publication *)
(* of the anchor, then Verify without a replay store; then the same token  *)
(* with one publicSignals entry of its envelope raised by one.             *)
(***************************************************************************)

TrustMethods == {0, 1, 2}

\* Decimal strings below and above the field prime, and one with a leading zero.
Nullifiers == {<<"1">>, <<"1", "0", "5">>, <<"0", "1", "0">>}

Secrets == {<<"2">>, <<"7">>}

ZkArgs ==
    [domain : {Domains[i] : i \in 1..Len(Domains)},
     metadata : {MetaDocs[i] : i \in 1..Len(MetaDocs)},
     nullifier : Nullifiers, secret : Secrets, trustMethod : TrustMethods, legacy : BOOLEAN]

InitZk ==
    /\ now = EpochBase
    /\ vkFile = 0
    /\ pkFile = 0
    /\ nextKey = 1
    /\ zone = {}
    /\ issued = EngineTokens
    /\ ReplayIdle
    /\ zPc = "inputs"
    /\ zArgs \in ZkArgs
    /\ zInputs = NoInputs
    /\ zWrapper = NoWrapper
    /\ zPtx = NoPtx
    /\ zTamper = 0
    /\ zRes = NewResult
    /\ zOut = NoOutcome
    /\ LoadIdle
    /\ AuxIdle

\* prove: inputs, err := p.GenerateCircuitInputs(...)
ZkInputs ==
    /\ zPc = "inputs"
    /\ zInputs' = GenerateCircuitInputs(zArgs.domain, zArgs.metadata, zArgs.nullifier,
                                        zArgs.secret, zArgs.trustMethod)
    /\ zPc' = IF zInputs'.err THEN "failed" ELSE "prove"
    /\ UNCHANGED <<now, vkFile, pkFile, nextKey, zone, replayVars, loadVars, auxVars,
                   zArgs, zWrapper, zPtx, zTamper, zRes, zOut>>

\* prove, native: proofJSON, err := p.GenerateProofNative(inputs)
ZkProveNative ==
    /\ zPc = "prove" /\ ~zArgs.legacy
    /\ LET proved == GenerateProofNative(zInputs, pkFile, vkFile, nextKey)
       IN  /\ zWrapper' = proved.wrapper
           /\ pkFile' = proved.pkFile
           /\ vkFile' = proved.vkFile
           /\ nextKey' = proved.nextKey
           /\ zPc' = IF proved.err THEN "failed" ELSE "create"
    /\ UNCHANGED <<now, zone, replayVars, loadVars, auxVars, zArgs, zInputs, zPtx, zTamper, zRes, zOut>>

\* prove, legacy: proofJSON, err := p.GenerateProof(inputs, wasm, zkey)
ZkProveLegacy ==
    /\ zPc = "prove" /\ zArgs.legacy
    /\ LET proved == GenerateProof(zInputs)
       IN  /\ zWrapper' = proved.wrapper
           /\ zPc' = IF proved.err THEN "failed" ELSE "create"
    /\ UNCHANGED <<now, vkFile, pkFile, nextKey, zone, replayVars, loadVars, auxVars,
                   zArgs, zInputs, zPtx, zTamper, zRes, zOut>>

\* prove: p.CreatePtxFile(proofJSON, metadata, domain, trustMethod); the
\* domain owner publishes the anchor record
ZkCreate ==
    /\ zPc = "create"
    /\ zPtx' = CreatePtxFile(zWrapper, zArgs.metadata, zArgs.domain, zArgs.trustMethod)
    /\ zone' = zone \cup {AnchorRecord(zInputs.Commitment, zArgs.domain, JsonMarshal(zArgs.metadata))}
    /\ zPc' = "verify"
    /\ UNCHANGED <<now, vkFile, pkFile, nextKey, replayVars, loadVars, auxVars,
                   zArgs, zInputs, zWrapper, zTamper, zRes, zOut>>

\* PTXVerifier.Verify on the token, no replay store configured
ZkVerify ==
    /\ zPc = "verify"
    /\ LET pol == VerifyPolicy(zPtx, EngineOptions[2], now)
           done == VerifyChecks(pol.res, zPtx, DoHAnswer(zone, DnsQueryName(zPtx)), vkFile, nextKey)
       IN  IF pol.returned
           THEN /\ zRes' = pol.res
                /\ UNCHANGED <<zOut, vkFile, nextKey>>
           ELSE /\ zRes' = done.res
                /\ zOut' = done.out
                /\ vkFile' = done.out.vkFile
                /\ nextKey' = done.out.nextKey
    /\ zPc' = "done"
    /\ UNCHANGED <<now, pkFile, zone, replayVars, loadVars, auxVars, zArgs, zInputs, zWrapper, zPtx, zTamper>>

\* The accepted token comes back with publicSignals[i] of its envelope raised by one.
ZkTamper(i) ==
    /\ zPc = "done" /\ zTamper = 0 /\ zRes.Success
    /\ zPtx' = [zPtx EXCEPT !.proof[1].proofData.publicSignals[i] = @ + 1]
    /\ zTamper' = i
    /\ zRes' = NewResult
    /\ zOut' = NoOutcome
    /\ zPc' = "verify"
    /\ UNCHANGED <<now, vkFile, pkFile, nextKey, zone, replayVars, loadVars, auxVars,
                   zArgs, zInputs, zWrapper>>

NextZk ==
    \/ ZkInputs
    \/ ZkProveNative
    \/ ZkProveLegacy
    \/ ZkCreate
    \/ ZkVerify
    \/ \E i \in 1..6 : ZkTamper(i)

SpecZk == InitZk /\ [][NextZk]_vars

(***************************************************************************)
(* LoadPTX on the files that can be written with a few byte values         *)
(***************************************************************************)

\* Longest file written.
MaxLen == 7

\* The magic bytes; as protobuf tags 80 and 88 open a varint field, 84 and
\* 1 are malformed.
FileBytes == {80, 84, 88, 1}

InitLoad ==
    /\ now = EpochBase
    /\ vkFile = 1
    /\ pkFile = 1
    /\ nextKey = 2
    /\ zone = EngineZone
    /\ issued = EngineTokens
    /\ ReplayIdle
    /\ ZkIdle
    /\ LoadIdle
    /\ AuxIdle

\* One more byte is written to the file.
WriteByte(b) ==
    /\ loadRes.kind = "none"
    /\ Len(fileData) < MaxLen
    /\ fileData' = Append(fileData, b)
    /\ UNCHANGED <<now, vkFile, pkFile, nextKey, zone, replayVars, zkVars, auxVars, loadRes>>

\* LoadPTX is called on the file.
Load ==
    /\ loadRes.kind = "none"
    /\ loadRes' = LoadPTX(TRUE, fileData)
    /\ UNCHANGED <<now, vkFile, pkFile, nextKey, zone, replayVars, zkVars, auxVars, fileData>>

\* LoadPTX is called on a path that cannot be read.
LoadMissing ==
    /\ loadRes.kind = "none"
    /\ fileData = <<>>
    /\ loadRes' = LoadPTX(FALSE, fileData)
    /\ UNCHANGED <<now, vkFile, pkFile, nextKey, zone, replayVars, zkVars, auxVars, fileData>>

\* The envelope byte CreatePtxFile writes, and the one seen in other files.
EnvelopeBytes == {0, 171}

\* Messages to serialize: every field at its default or set.
LoadRecords ==
    [trustMethod : {0, 1},
     proof : {<<>>,
              <<[proofSystem |-> 0, verificationKeyId |-> <<>>, proofData |-> <<>>]>>,
              <<[proofSystem |-> 1, verificationKeyId |-> <<115>>, proofData |-> <<123, 125>>]>>},
     signedMetadata : {<<>>, <<123, 125>>},
     doh : {<<>>, <<<<>>>>, <<<<97, 46, 98>>>>}]

\* A container for a message is written to the file: by CreatePtxFile with
\* envelope byte 0, by another writer with 0xAB.
WriteContainer(envelope, ptxFile) ==
    /\ loadRes.kind = "none"
    /\ fileData = <<>>
    /\ fileData' = ContainerBytes(envelope, ptxFile)
    /\ UNCHANGED <<now, vkFile, pkFile, nextKey, zone, replayVars, zkVars, auxVars, loadRes>>

NextLoad ==
    \/ \E b \in FileBytes : WriteByte(b)
    \/ \E envelope \in EnvelopeBytes, ptxFile \in LoadRecords : WriteContainer(envelope, ptxFile)
    \/ Load
    \/ LoadMissing

SpecLoad == InitLoad /\ [][NextLoad]_vars

(***************************************************************************)
(* The two Poseidon implementations on the same inputs                     *)
(***************************************************************************)

MaxArity == 5

HashValues == {0, 1, SNARK_FIELD_SIZE - 1}

RECURSIVE Vectors(_)
Vectors(n) ==
    IF n = 0 THEN {<<>>} ELSE {Append(v, x) : v \in Vectors(n - 1), x \in HashValues}

HashInputs == UNION {Vectors(n) : n \in 0..MaxArity}

InitHash ==
    /\ now = EpochBase
    /\ vkFile = 0
    /\ pkFile = 0
    /\ nextKey = 1
    /\ zone = {}
    /\ issued = EngineTokens
    /\ ReplayIdle
    /\ ZkIdle
    /\ LoadIdle
    /\ CallIdle
    /\ KeyIdle
    /\ HostIdle
    /\ hIn \in HashInputs
    /\ hScalar = NoHash
    /\ hCircuit = NoHash

HashResult(r) == IF r.ok THEN [kind |-> "value", val |-> r.val] ELSE [kind |-> "error", val |-> 0]

\* crypto.PoseidonHash(inputs)
ScalarHash ==
    /\ hScalar = NoHash
    /\ hScalar' = HashResult(PoseidonHash(hIn))
    /\ UNCHANGED <<now, vkFile, pkFile, nextKey, zone, replayVars, zkVars, loadVars, keyVars, hostVars, hIn, hCircuit, callVars>>

\* poseidon.NewHasher(api, len(inputs)), then h.Hash(inputs...)
HasherCall ==
    /\ hCircuit = NoHash
    /\ hCircuit' = HashResult(HashN(hIn))
    /\ UNCHANGED <<now, vkFile, pkFile, nextKey, zone, replayVars, zkVars, loadVars, keyVars, hostVars, hIn, hScalar, callVars>>

NextHash ==
    \/ ScalarHash
    \/ HasherCall

SpecHash == InitHash /\ [][NextHash]_vars
(***************************************************************************)
(* Properties of the replay store and of Verify                            *)
(***************************************************************************)

\* C1: among the CheckAndSetNonce calls made with one nonce while its stored
\* entry is held, exactly one was answered true (fresh) and every other one
\* false; with no entry held, no call has been answered yet.
NonceAtMostOnce ==
    \A n \in Nonces :
        /\ store[n].present => fresh[n] = 1
        /\ ~store[n].present => fresh[n] = 0 /\ replayed[n] = 0

\* Two callers were at the store call with the same nonce and an expiration
\* in the future; one was answered fresh, the other replayed.
NonceAtMostOnceWitness ==
    \E n \in Nonces :
        /\ store[n].present /\ ~store[n].persist /\ store[n].deadline > now
        /\ fresh[n] = 1 /\ replayed[n] = 1
        /\ \A p \in Procs : pc[p] = "checks"

\* C2 as stated: with a replay store configured, a token that carries a nonce
\* and an expiration_timestamp is accepted by at most one Verify call.
VerifyAtMostOnce ==
    \A t \in 1..Len(issued) :
        LET meta == JsonUnmarshal(issued[t].ptx.signedMetadata)
        IN  (~meta.err /\ Len(meta.meta.nonce) > 0 /\ Len(meta.meta.exp) > 0) => succ[t] <= 1

SkippedProofNeverSucceeds ==
    \A p \in Procs : (pc[p] = "done" /\ res[p].Zk.Skipped) => ~res[p].Success

\* C9: a CheckAndSetNonce call whose expiration is earlier than now answers
\* not fresh; the step leaves the store as it was and never gets to the
\* store call.
ExpiredNonceLeavesStore ==
    [][\A p \in Procs :
          (/\ pc[p] = "nonce" /\ pc'[p] # "nonce"
           /\ OptsOf(p).RedisURL # "" /\ ParseURLOk(OptsOf(p).RedisURL)
           /\ Len(MetaOf(p).nonce) > 0
           /\ (IF Len(MetaOf(p).exp) > 0 THEN MetaOf(p).exp[1] ELSE DefaultExp) < now)
          => /\ store' = store
             /\ pc'[p] = "checks"
             /\ ~res'[p].Success
             /\ res'[p].Errors = Append(res[p].Errors, "Nonce invalid or replayed")]_vars

\* A call on the token that expires at EpochBase + 1 reached the nonce check
\* after that second and was answered not fresh, the nonce not in the store.
ExpiredNonceLeavesStoreWitness ==
    \E p \in Procs :
        /\ pc[p] = "checks" /\ tok[p] = 1 /\ opt[p] = 1 /\ now > EpochBase + 1
        /\ res[p].Errors = <<"PTX token expired", "Nonce invalid or replayed">>
        /\ ~store["n1"].present /\ fresh["n1"] = 0 /\ replayed["n1"] = 0
(***************************************************************************)
(* The key files under a prover and a verifier that run side by side, one  *)
(* system call at a time.  A key file holds the number of the setup run    *)
(* that produced it, 0 when it does not exist, -1 when it was created or   *)
(* truncated and its key not yet written.                                  *)
(***************************************************************************)

MaxRuns == 2

InitKeys ==
    /\ now = EpochBase
    /\ vkFile = 0
    /\ pkFile = 0
    /\ nextKey = 1
    /\ zone = {}
    /\ issued = EngineTokens
    /\ ReplayIdle
    /\ zPc = "off"
    /\ zArgs = NoArgs
    /\ zInputs = GenerateCircuitInputs(Domains[1], MetaDocs[1], <<"1">>, <<"2">>, 1)
    /\ zWrapper = NoWrapper
    /\ zPtx = NoPtx
    /\ zTamper = 0
    /\ zRes = NewResult
    /\ zOut = NoOutcome
    /\ LoadIdle
    /\ AuxIdle

\* GenerateProofNative (prover) or verifyNativeGnarkProof (verifier) is
\* called and gets to its key loading.
KeyStart(u) ==
    /\ kPc[u] \in {"idle", "done", "fail", "crashed"}
    /\ kRuns[u] < MaxRuns
    /\ kPc' = [kPc EXCEPT ![u] = "stat"]
    /\ kKey' = [kKey EXCEPT ![u] = NoKeys]
    /\ kRuns' = [kRuns EXCEPT ![u] = @ + 1]
    /\ UNCHANGED <<now, vkFile, pkFile, nextKey, zone, replayVars, zkVars, loadVars,
                   hashVars, hostVars, kOut, callVars>>

\* os.Stat(nativeVKPath), and for the prover os.Stat(nativePKPath)
KeyStat(u) ==
    /\ kPc[u] = "stat"
    /\ kPc' = [kPc EXCEPT ![u] =
                  IF u = "prover"
                  THEN (IF vkFile # 0 /\ pkFile # 0 THEN "readpk" ELSE "setup")
                  ELSE (IF vkFile # 0 THEN "readvk" ELSE "setup")]
    /\ UNCHANGED <<now, vkFile, pkFile, nextKey, zone, replayVars, zkVars, loadVars,
                   hashVars, hostVars, kKey, kOut, kRuns, callVars>>

\* loadOrSetupKeys: pk.ReadFrom(pkFile)
KeyReadPk(u) ==
    /\ u = "prover" /\ kPc[u] = "readpk"
    /\ IF pkFile <= 0
       THEN kPc' = [kPc EXCEPT ![u] = "fail"] /\ UNCHANGED kKey
       ELSE /\ kPc' = [kPc EXCEPT ![u] = "readvk"]
            /\ kKey' = [kKey EXCEPT ![u].pk = pkFile]
    /\ UNCHANGED <<now, vkFile, pkFile, nextKey, zone, replayVars, zkVars, loadVars,
                   hashVars, hostVars, kOut, kRuns, callVars>>

\* loadOrSetupKeys, loadCachedVK: vk.ReadFrom(vkFile)
KeyReadVk(u) ==
    /\ kPc[u] = "readvk"
    /\ IF vkFile <= 0
       THEN kPc' = [kPc EXCEPT ![u] = "fail"] /\ UNCHANGED kKey
       ELSE /\ kPc' = [kPc EXCEPT ![u] = IF u = "prover" THEN "prove" ELSE "done"]
            /\ kKey' = [kKey EXCEPT ![u].vk = vkFile]
    /\ UNCHANGED <<now, vkFile, pkFile, nextKey, zone, replayVars, zkVars, loadVars,
                   hashVars, hostVars, kOut, kRuns, callVars>>

\* groth16.Setup(ccs); the verifier drops the proving key
KeySetup(u) ==
    /\ kPc[u] = "setup"
    /\ kKey' = [kKey EXCEPT ![u] = [pk |-> IF u = "prover" THEN nextKey ELSE 0, vk |-> nextKey]]
    /\ nextKey' = nextKey + 1
    /\ kPc' = [kPc EXCEPT ![u] = IF u = "prover" THEN "createpk" ELSE "createvk"]
    /\ UNCHANGED <<now, vkFile, pkFile, zone, replayVars, zkVars, loadVars,
                   hashVars, hostVars, kOut, kRuns, callVars>>

\* loadOrSetupKeys: os.Create(nativePKPath)
KeyCreatePk(u) ==
    /\ u = "prover" /\ kPc[u] = "createpk"
    /\ pkFile' = -1
    /\ kPc' = [kPc EXCEPT ![u] = "createvk"]
    /\ UNCHANGED <<now, vkFile, nextKey, zone, replayVars, zkVars, loadVars,
                   hashVars, hostVars, kKey, kOut, kRuns, callVars>>

\* loadOrSetupKeys, loadCachedVK: os.Create(nativeVKPath)
KeyCreateVk(u) ==
    /\ kPc[u] = "createvk"
    /\ vkFile' = -1
    /\ kPc' = [kPc EXCEPT ![u] = IF u = "prover" THEN "writepk" ELSE "writevk"]
    /\ UNCHANGED <<now, pkFile, nextKey, zone, replayVars, zkVars, loadVars,
                   hashVars, hostVars, kKey, kOut, kRuns, callVars>>

\* loadOrSetupKeys: pk.WriteTo(pkFile)
KeyWritePk(u) ==
    /\ u = "prover" /\ kPc[u] = "writepk"
    /\ pkFile' = kKey[u].pk
    /\ kPc' = [kPc EXCEPT ![u] = "writevk"]
    /\ UNCHANGED <<now, vkFile, nextKey, zone, replayVars, zkVars, loadVars,
                   hashVars, hostVars, kKey, kOut, kRuns, callVars>>

\* loadOrSetupKeys, loadCachedVK: vk.WriteTo(vkFile)
KeyWriteVk(u) ==
    /\ kPc[u] = "writevk"
    /\ vkFile' = kKey[u].vk
    /\ kPc' = [kPc EXCEPT ![u] = IF u = "prover" THEN "prove" ELSE "done"]
    /\ UNCHANGED <<now, pkFile, nextKey, zone, replayVars, zkVars, loadVars,
                   hashVars, hostVars, kKey, kOut, kRuns, callVars>>

\* GenerateProofNative after loadOrSetupKeys: witness, Prove, envelope,
\* self-verification, return
KeyProve(u) ==
    /\ u = "prover" /\ kPc[u] = "prove"
    /\ LET out == ProveWithKeys(zInputs, [pk |-> kKey[u].pk, vk |-> kKey[u].vk,
                                          pkFile |-> pkFile, vkFile |-> vkFile, nextKey |-> nextKey])
       IN  /\ kOut' = [returned |-> TRUE, err |-> out.err, selfVerified |-> out.selfVerified,
                       wrapper |-> IF out.err THEN NoWrapper ELSE out.wrapper]
           /\ kPc' = [kPc EXCEPT ![u] = IF out.err THEN "fail" ELSE "done"]
    /\ UNCHANGED <<now, vkFile, pkFile, nextKey, zone, replayVars, zkVars, loadVars,
                   hashVars, hostVars, kKey, kRuns, callVars>>

\* The process dies part-way through setting up and persisting its keys.
KeyCrash(u) ==
    /\ kPc[u] \in {"setup", "createpk", "createvk", "writepk", "writevk"}
    /\ kPc' = [kPc EXCEPT ![u] = "crashed"]
    /\ UNCHANGED <<now, vkFile, pkFile, nextKey, zone, replayVars, zkVars, loadVars,
                   hashVars, hostVars, kKey, kOut, kRuns, callVars>>

NextKeys ==
    \E u \in KeyUsers :
        \/ KeyStart(u)
        \/ KeyStat(u)
        \/ KeyReadPk(u)
        \/ KeyReadVk(u)
        \/ KeySetup(u)
        \/ KeyCreatePk(u)
        \/ KeyCreateVk(u)
        \/ KeyWritePk(u)
        \/ KeyWriteVk(u)
        \/ KeyProve(u)
        \/ KeyCrash(u)

SpecKeys == InitKeys /\ [][NextKeys]_vars

(***************************************************************************)
(* The two hostname derivations on the same commitment and parent domain   *)
(***************************************************************************)

InitHost ==
    /\ now = EpochBase
    /\ vkFile = 0
    /\ pkFile = 0
    /\ nextKey = 1
    /\ zone = {}
    /\ issued = EngineTokens
    /\ ReplayIdle
    /\ ZkIdle
    /\ LoadIdle
    /\ CallIdle
    /\ HashIdle
    /\ KeyIdle
    /\ dCommitment \in 0..(SNARK_FIELD_SIZE - 1)
    /\ dParent \in {Domains[i] : i \in 1..Len(Domains)}
    /\ dUtils = NoHostname
    /\ dCrypto = NoHostname

\* utils.DeriveHostnameFromCommitment(commitment.String(), domain)
DeriveUtils ==
    /\ dUtils = NoHostname
    /\ dUtils' = [kind |-> "name", name |-> utilsDeriveHostnameFromCommitment(dCommitment, dParent)]
    /\ UNCHANGED <<now, vkFile, pkFile, nextKey, zone, replayVars, zkVars, loadVars,
                   hashVars, keyVars, dCommitment, dParent, dCrypto, callVars>>

\* crypto.DeriveHostnameFromCommitment(&commitment, domain)
DeriveCrypto ==
    /\ dCrypto = NoHostname
    /\ dCrypto' = [kind |-> "name", name |-> cryptoDeriveHostnameFromCommitment(dCommitment, dParent)]
    /\ UNCHANGED <<now, vkFile, pkFile, nextKey, zone, replayVars, zkVars, loadVars,
                   hashVars, keyVars, dCommitment, dParent, dUtils, callVars>>

NextHost ==
    \/ DeriveUtils
    \/ DeriveCrypto

SpecHost == InitHost /\ [][NextHost]_vars

(***************************************************************************)
(* verifyDNS on a token and the answer of the DoH endpoint                 *)
(***************************************************************************)

\* Every other part of the program at rest, no key files, nothing published.
RestOfProgramIdle ==
    /\ now = EpochBase
    /\ vkFile = 0
    /\ pkFile = 0
    /\ nextKey = 1
    /\ zone = {}
    /\ issued = EngineTokens
    /\ ReplayIdle
    /\ ZkIdle
    /\ LoadIdle
    /\ HashIdle
    /\ KeyIdle
    /\ HostIdle

restVars == <<now, vkFile, pkFile, nextKey, zone, replayVars, zkVars, loadVars,
              hashVars, keyVars, hostVars>>

\* The tokens verifyDNS is given: two honest ones, and the first without its
\* DoH details, without its proof, with proof data that is not JSON, and
\* with a single public signal.
DnsTokens ==
    LET t1 == EngineTokens[1].ptx
        t2 == EngineTokens[2].ptx
    IN  { t1, t2,
          [t1 EXCEPT !.doh = <<>>],
          [t1 EXCEPT !.proof = <<>>],
          [t1 EXCEPT !.proof[1].proofData.json = FALSE],
          [t1 EXCEPT !.proof[1].proofData.publicSignals = SubSeq(@, 1, 1)] }

\* The data of the answers: the digest of the first token's metadata quoted,
\* bare, inside a longer text and cut short, the digest of the second
\* token's metadata, and nothing.
DnsData ==
    LET e1 == Sha256Hex(MetaBytes(EngineTokens[1].ptx.signedMetadata))
        e2 == Sha256Hex(MetaBytes(EngineTokens[2].ptx.signedMetadata))
    IN  { <<"\"">> \o e1 \o <<"\"">>, e1, <<"\"", "v", "=">> \o e1 \o <<";", "\"">>,
          SubSeq(e1, 1, Len(e1) - 1), <<"\"">> \o e2 \o <<"\"">>, <<>> }

\* Answer entries: TXT (16) and CNAME (5)
DnsAnswers == {[type |-> ty, data |-> d] : ty \in {16, 5}, d \in DnsData}

MaxAnswers == 2

DnsAnswerLists ==
    UNION {[1..n -> DnsAnswers] : n \in 0..MaxAnswers}

\* What the endpoint can send: nothing, a server error, and an HTTP 200 body
\* with Status 0 (NOERROR), 2 (SERVFAIL) or 3 (NXDOMAIN).
DnsResponses ==
    DoHOutages \cup
    {[reached |-> TRUE, code |-> 200, Status |-> st, Answer |-> a] :
        st \in {0, 2, 3}, a \in DnsAnswerLists}

InitDns ==
    /\ RestOfProgramIdle
    /\ qIn \in {[kind |-> "verifyDNS", ptx |-> t, resp |-> r] : t \in DnsTokens, r \in DnsResponses}
    /\ qOut = NoCall

\* res.Dns = v.verifyDNS(ptxFile)
DnsCheck ==
    /\ qIn.kind = "verifyDNS"
    /\ qOut = NoCall
    /\ qOut' = [kind |-> "DnsResult", dns |-> verifyDNS(qIn.ptx, qIn.resp)]
    /\ UNCHANGED <<restVars, qIn>>

NextDns == DnsCheck

SpecDns == InitDns /\ [][NextDns]_vars

(***************************************************************************)
(* The table reads of the two Poseidon implementations on the same inputs  *)
(***************************************************************************)

NoReads == [ok |-> FALSE, t |-> 0]

InitReads ==
    /\ RestOfProgramIdle
    /\ qIn \in [kind : {"Poseidon"}, inputs : HashInputs]
    /\ qOut = [kind |-> "Poseidon", scalar |-> NoReads, circuit |-> NoReads]

\* crypto.PoseidonHash(inputs), for a supported width
ScalarReads ==
    /\ qIn.kind = "Poseidon"
    /\ qOut.scalar = NoReads
    /\ PoseidonHashReads(qIn.inputs).ok
    /\ qOut' = [qOut EXCEPT !.scalar = PoseidonHashReads(qIn.inputs)]
    /\ UNCHANGED <<restVars, qIn>>

\* poseidon.NewHasher(api, len(inputs)) and h.Hash(inputs...), for a supported width
CircuitReads ==
    /\ qIn.kind = "Poseidon"
    /\ qOut.circuit = NoReads
    /\ HasherHashReads(qIn.inputs).ok
    /\ qOut' = [qOut EXCEPT !.circuit = HasherHashReads(qIn.inputs)]
    /\ UNCHANGED <<restVars, qIn>>

NextReads ==
    \/ ScalarReads
    \/ CircuitReads

SpecReads == InitReads /\ [][NextReads]_vars

(***************************************************************************)
(* The two Base27 encoders on the same integer                             *)
(***************************************************************************)

MaxBase27 == 800

Base27HexWidth == 3

InitBase27 ==
    /\ RestOfProgramIdle
    /\ qIn \in [kind : {"Base27"}, n : 0..MaxBase27]
    /\ qOut = [kind |-> "Base27", utils |-> <<>>, crypto |-> <<>>]

\* utils.Base27(hashHex), the integer written as hex.EncodeToString writes it
Base27Utils ==
    /\ qIn.kind = "Base27"
    /\ qOut.utils = <<>>
    /\ qOut' = [qOut EXCEPT !.utils = utilsBase27(HexEncodeWidth(qIn.n, Base27HexWidth))]
    /\ UNCHANGED <<restVars, qIn>>

\* crypto.Base27(n)
Base27Crypto ==
    /\ qIn.kind = "Base27"
    /\ qOut.crypto = <<>>
    /\ qOut' = [qOut EXCEPT !.crypto = cryptoBase27(qIn.n)]
    /\ UNCHANGED <<restVars, qIn>>

NextBase27 ==
    \/ Base27Utils
    \/ Base27Crypto

SpecBase27 == InitBase27 /\ [][NextBase27]_vars

(***************************************************************************)
(* The three derivations of the metadata hash pair on the same digest      *)
(***************************************************************************)

NoPair == <<>>

\* The signed metadata strings of the model.
MetaStrings == {JsonMarshal(MetaDocs[i]) : i \in 1..Len(MetaDocs)} \cup {NotJson}

InitSplit ==
    /\ RestOfProgramIdle
    /\ qIn \in [kind : {"split"}, digest : 0..(DigestSpace - 1)]
    /\ qOut = [kind |-> "split", prover |-> NoPair, verifier |-> NoPair, semantic |-> NoPair]

\* GenerateCircuitInputs: crypto.SplitHashToFieldElements(metadataHash)
SplitProver ==
    /\ qIn.kind = "split"
    /\ qOut.prover = NoPair
    /\ qOut' = [qOut EXCEPT !.prover = SplitHashToFieldElements(HexEncode(qIn.digest))]
    /\ UNCHANGED <<restVars, qIn>>

\* verifyNativeGnarkProof: crypto.SplitMetadataHash(metaRaw), for a metadata
\* string that has the digest
SplitVerifier ==
    /\ qIn.kind = "split"
    /\ qOut.verifier = NoPair
    /\ \E metaRaw \in MetaStrings :
           /\ Sha256(MetaBytes(metaRaw)) = qIn.digest
           /\ qOut' = [qOut EXCEPT !.verifier = SplitMetadataHash(metaRaw)]
    /\ UNCHANGED <<restVars, qIn>>

\* VerifyAgainstProof: metaP1, metaP2 := hashToBigInts(metaHash[:])
SplitSemantic ==
    /\ qIn.kind = "split"
    /\ qOut.semantic = NoPair
    /\ qOut' = [qOut EXCEPT !.semantic = hashToBigInts(qIn.digest)]
    /\ UNCHANGED <<restVars, qIn>>

NextSplit ==
    \/ SplitProver
    \/ SplitVerifier
    \/ SplitSemantic

SpecSplit == InitSplit /\ [][NextSplit]_vars

(***************************************************************************)
(* Verify from its start to the nonce check, on metadata and options       *)
(***************************************************************************)

MaxScopes == 2

\* the "scopes" member: absent, or a list of strings and numbers
PolicyScopes ==
    {<<>>} \cup
    {<<list>> : list \in UNION {[1..n -> {JsonString("read"), JsonString("write"), JsonNumber("7")}] :
                                    n \in 0..MaxScopes}}

PolicyDocs ==
    [exp : {<<>>, <<EpochBase>>}, nonce : {<<>>}, scopes : PolicyScopes,
     audience : {<<>>, <<"svc">>, <<"web">>}]

PolicyOptions ==
    [IntendedScope : {<<>>, <<"read">>, <<"admin">>, <<"write", "read">>},
     IntendedAudience : {<<>>, <<"svc">>, <<"ops", "web">>},
     RedisURL : {""}]

InitPolicy ==
    /\ RestOfProgramIdle
    /\ qIn \in [kind : {"Verify"}, meta : PolicyDocs, opts : PolicyOptions,
                 clock : {EpochBase, EpochBase + 1}]
    /\ qOut = NoCall

\* Verify on a token that holds the metadata, up to the nonce check
PolicyCheck ==
    /\ qIn.kind = "Verify"
    /\ qOut = NoCall
    /\ LET ptxFile == [EngineTokens[1].ptx EXCEPT !.signedMetadata = JsonMarshal(qIn.meta)]
       IN  qOut' = [kind |-> "VerificationResult"] @@ VerifyPolicy(ptxFile, qIn.opts, qIn.clock)
    /\ UNCHANGED <<restVars, qIn>>

NextPolicy == PolicyCheck

SpecPolicy == InitPolicy /\ [][NextPolicy]_vars

(***************************************************************************)
(* Properties of the proof check                                           *)
(***************************************************************************)

\* The values the payload of the token gives for positions 2..5: SHA-256 of
\* the domain reduced mod p, the two halves of the metadata hash, the trust method.
PayloadSignals ==
    <<SetBigInt(Sha256(DomainBytes(DomainOf(zPtx)))),
      SplitMetadataHash(zPtx.signedMetadata)[1], SplitMetadataHash(zPtx.signedMetadata)[2],
      SetBigInt(zPtx.trustMethod)>>

\* C5 as stated: whenever a public witness was handed to Groth16, on the
\* native or the legacy path, its positions 2..5 are the values re-derived
\* from the payload of the token.
WitnessRederived ==
    (zPc = "done" /\ Len(zOut.witness) = 6) => SubSeq(zOut.witness, 3, 6) = PayloadSignals

\* C6 as stated: the semantic check passes exactly when positions 2..5 of
\* publicSignals hold the payload's values, and a token with a mismatch at
\* one of them is not accepted.
SemanticByPosition ==
    (zPc = "done" /\ zOut.semRan) =>
        LET signals == zPtx.proof[1].proofData.publicSignals
            matches == Len(signals) = 6 /\ SubSeq(signals, 3, 6) = PayloadSignals
        IN  /\ zOut.sem.AllValid <=> matches
            /\ ~matches => ~zRes.Success

\* C7 as stated: an accepted token with one of its six publicSignals
\* entries raised by one is not accepted.
TamperRejected ==
    (zPc = "done" /\ zTamper # 0) => ~zRes.Success

\* C8: the token an honest prover builds passes the semantic check, the
\* native verifier's re-derived positions 2..5 equal the prover's
\* publicSignals[2..5], and with its anchor published Verify accepts it.
HonestAccepted ==
    (zPc = "done" /\ zTamper = 0) =>
        /\ zOut.semRan /\ zOut.sem.AllValid
        /\ ~zArgs.legacy =>
              /\ Len(zOut.witness) = 6
              /\ \A k \in 3..6 : zOut.witness[k] = fromString(PublicSigs(zInputs)[k])
        /\ zRes.Dns.Valid /\ zRes.Zk.Valid /\ zRes.Success

\* A native token for the domain whose SHA-256 exceeds the field prime and
\* a nullifier above the prime went through Verify and was accepted.
HonestAcceptedWitness ==
    /\ zPc = "done" /\ zTamper = 0 /\ ~zArgs.legacy
    /\ Sha256(DomainBytes(zArgs.domain)) >= SNARK_FIELD_SIZE
    /\ zArgs.nullifier = <<"1", "0", "5">>
    /\ Len(zArgs.metadata.nonce) > 0
    /\ zRes.Success /\ Len(zOut.witness) = 6
(***************************************************************************)
(* Properties of the container loader                                      *)
(***************************************************************************)

\* C10 as stated: LoadPTX on any byte sequence returns a record or an error
\* and never crashes; a file without the magic bytes, or with fewer than the
\* five bytes of magic and envelope byte, is rejected with an error.
LoadNeverCrashes ==
    loadRes.kind # "none" =>
        /\ loadRes.kind \in {"record", "error"}
        /\ (Len(fileData) < 5 \/ SubSeq(fileData, 1, 4) # MagicHeader) => loadRes.kind = "error"

\* C11: a file holding the magic, an envelope byte and a serialized message
\* decodes to that message, whichever of the envelope bytes 0x00 and 0xAB
\* it carries.
DecodeEncodeIdentity ==
    loadRes.kind # "none" =>
        \A envelope \in EnvelopeBytes, ptxFile \in LoadRecords :
            fileData = ContainerBytes(envelope, ptxFile) =>
                /\ loadRes.kind = "record"
                /\ PtxFileOf(loadRes.fields) = ptxFile

\* A container with envelope byte 0xAB and every field set was loaded, and
\* so was one whose message is empty.
DecodeEncodeIdentityWitness ==
    /\ loadRes.kind = "record"
    /\ fileData = ContainerBytes(171, [trustMethod |-> 1,
              proof |-> <<[proofSystem |-> 1, verificationKeyId |-> <<115>>, proofData |-> <<123, 125>>]>>,
              signedMetadata |-> <<123, 125>>, doh |-> <<<<97, 46, 98>>>>])
    /\ PtxFileOf(loadRes.fields).doh = <<<<97, 46, 98>>>>

(***************************************************************************)
(* Properties of the two Poseidon implementations                          *)
(***************************************************************************)

\* C12: on an input vector of arity 1, 3 or 4 the off-circuit PoseidonHash
\* and the in-circuit Hasher.Hash both return a field element, and the same
\* one.
ScalarEqualsCircuit ==
    (hScalar # NoHash /\ hCircuit # NoHash /\ Len(hIn) \in {1, 3, 4}) =>
        /\ hScalar.kind = "value"
        /\ hCircuit = hScalar

\* Both implementations hashed a vector of arity 4 with entries at both
\* ends of the field.
ScalarEqualsCircuitWitness ==
    /\ hIn = <<SNARK_FIELD_SIZE - 1, 0, 1, SNARK_FIELD_SIZE - 1>>
    /\ hScalar.kind = "value" /\ hCircuit.kind = "value"

GeneratedInputsSatisfyCircuit ==
    (zPc \in {"prove", "create", "done", "failed"} /\ ~zInputs.err) =>
        LET pub == PublicAssignment(zInputs)
            nullifier == fromStringText(zInputs.Nullifier)
            secret == fromStringText(zInputs.Secret)
        IN  /\ DoHCircuitDefine(pub, nullifier, secret)
            /\ pub[1] = PoseidonHash(<<nullifier>>).val
            /\ pub[2] = PoseidonHash(<<nullifier, secret,
                                       PoseidonHash(<<pub[3], pub[4], pub[5], pub[6]>>).val>>).val

\* C15 as stated: GenerateProofNative never returns proof bytes for a proof
\* that failed its self-verification against the loaded verifying key.
SelfVerifyFailureIsFatal ==
    (kOut.returned /\ ~kOut.err) => kOut.selfVerified

\* C16 as stated: a verifier that finds native.vk absent fails with a
\* key-missing error; no step of the verifier runs a Groth16 setup or
\* creates or overwrites a key file.
VerifierNeverRegeneratesKey ==
    [][kPc'["verifier"] # kPc["verifier"] =>
          /\ nextKey' = nextKey /\ vkFile' = vkFile /\ pkFile' = pkFile
          /\ (kPc["verifier"] = "stat" /\ vkFile = 0) => kPc'["verifier"] = "fail"]_vars

\* C17 as stated: whenever native.pk and native.vk both hold a key, the two
\* keys come from the same Groth16 setup run, and so do the two keys a
\* prover has loaded.
KeyPairFromOneSetup ==
    /\ (pkFile > 0 /\ vkFile > 0) => pkFile = vkFile
    /\ (kKey["prover"].pk > 0 /\ kKey["prover"].vk > 0) => kKey["prover"].pk = kKey["prover"].vk

(***************************************************************************)
(* Properties of the hostname derivation                                   *)
(***************************************************************************)

\* C18 as stated: for a commitment in the field and a parent domain, both
\* derivations return the same string, "x" + base27(SHA-256(buffer of the
\* commitment)) + "x." + parent domain.
DerivationsAgree ==
    (dUtils # NoHostname /\ dCrypto # NoHostname) =>
        /\ dUtils.name = dCrypto.name
        /\ dCrypto.name = <<"x">> \o cryptoBase27(Sha256(dCommitment)) \o <<"x", ".", dParent>>

\* C19 as stated: for the zero commitment the derived hostname is
\* "xax." + parent domain.
ZeroCommitmentHostname ==
    (dCommitment = 0 /\ dUtils # NoHostname) => dUtils.name = <<"x", "a", "x", ".", dParent>>

\* C19, amended: for the zero commitment utils.DeriveHostnameFromCommitment
\* returns "x" + base27(SHA-256 of the all-zero buffer) + "x." + parent
\* domain, whose label is not "a" as the digest of the zero buffer is not 0.
ZeroCommitmentHashed ==
    (dCommitment = 0 /\ dUtils # NoHostname) =>
        /\ dUtils.name = <<"x">> \o Base27Digits(Sha256(0)) \o <<"x", ".", dParent>>
        /\ dUtils.name # <<"x", "a", "x", ".", dParent>>

\* The hostname of the zero commitment was derived for a parent domain.
ZeroCommitmentHashedWitness ==
    /\ dCommitment = 0 /\ dParent = Domains[1]
    /\ dUtils.kind = "name" /\ Len(dUtils.name) > 4

\* C20: a DoH response that is not HTTP 200, or whose JSON Status is not 0,
\* makes the DNS check of a call that queried the resolver fail as a lookup
\* failure ("DNS Lookup failed"), never as the "No matching TXT record found"
\* outcome reported when the lookup succeeded and no TXT record matched.
LookupFailureDistinct ==
    [][\A p \in Procs : \A resp \in DoHFailures :
          (/\ resp.reached
           /\ resp.code # 200 \/ resp.Status # 0
           /\ DnsQueryName(PtxOf(p)) # <<>>
           /\ Checks(p, resp))
          => res'[p].Dns.Error = "DNS Lookup failed"]_vars


\* The derived hostname and the expected digest of a verifyDNS call, and
\* whether an answer of type 16 holds the digest once its quotes are stripped.
DnsExpected(ptxFile) == Sha256Hex(MetaBytes(ptxFile.signedMetadata))

DnsTxtMatch(ptxFile, resp) ==
    \E k \in 1..Len(resp.Answer) :
        /\ resp.Answer[k].type = 16
        /\ Contains(Trim(resp.Answer[k].data), DnsExpected(ptxFile))

DnsLookupOk(resp) == resp.reached /\ resp.code = 200 /\ resp.Status = 0

ReplayFailureDoesNotStopEngine ==
    \A p \in Procs :
        (/\ pc[p] = "done"
         /\ \E k \in 1..Len(res[p].Errors) :
                res[p].Errors[k] \in {"Failed to connect to nonce store",
                                      "Nonce invalid or replayed"})
        => /\ ~res[p].Success
           /\ res[p].Dns # NoDns
           /\ res[p].Zk # NoZk


\* "PTX token expired" is among the errors of a result.
ReportsExpired(r) == \E k \in 1..Len(r.Errors) : r.Errors[k] = "PTX token expired"

\* C23: Verify reports the token as expired exactly when now is greater than
\* expiration_timestamp (not when they are equal); a call that reported it
\* returns Success = false, and it returns with the verdicts of the DNS
\* check and the proof check, which were still attempted.
ExpiredTokenStillChecked ==
    [][\A p \in Procs :
          /\ (pc[p] = "idle" /\ pc'[p] # "idle" /\ ~res'[p].fatal /\ issued[tok'[p]].ptx.signedMetadata.json)
             => (ReportsExpired(res'[p]) <=>
                    LET meta == issued[tok'[p]].ptx.signedMetadata.doc
                    IN  Len(meta.exp) > 0 /\ now > meta.exp[1])
          /\ (pc[p] # "done" /\ pc'[p] = "done" /\ ReportsExpired(res'[p]))
             => /\ ~res'[p].Success
                /\ res'[p].Dns # NoDns
                /\ res'[p].Zk # NoZk]_vars


HasError(r, msg) == \E k \in 1..Len(r.Errors) : r.Errors[k] = msg

\* C24: with an intended scope set configured and a scope list in the
\* metadata, Verify fails with a scope mismatch exactly when the two sets
\* are disjoint; with an intended audience set configured and an audience
\* in the metadata, it fails with an audience mismatch exactly when the
\* audience is not in the set; a token without the field, or a verifier
\* with nothing configured, passes that check.
ScopeAndAudiencePolicy ==
    qOut.kind = "VerificationResult" =>
        LET meta == qIn.meta
            opts == qIn.opts
            wanted == {JsonString(opts.IntendedScope[b]) : b \in 1..Len(opts.IntendedScope)}
            carried == {meta.scopes[1][a] : a \in 1..Len(meta.scopes[1])}
            audiences == {opts.IntendedAudience[b] : b \in 1..Len(opts.IntendedAudience)}
        IN  /\ IF Len(opts.IntendedScope) > 0 /\ Len(meta.scopes) > 0
               THEN HasError(qOut.res, "Scope mismatch") <=> wanted \cap carried = {}
               ELSE ~HasError(qOut.res, "Scope mismatch")
            /\ IF Len(opts.IntendedAudience) > 0 /\ Len(meta.audience) > 0
               THEN HasError(qOut.res, "Audience mismatch") <=> meta.audience[1] \notin audiences
               ELSE ~HasError(qOut.res, "Audience mismatch")
            /\ (HasError(qOut.res, "Scope mismatch") \/ HasError(qOut.res, "Audience mismatch"))
                   => ~qOut.res.Success


\* The integer a string over the alphabet a=0 .. z=25, '-'=26 stands for,
\* most significant digit first.
RECURSIVE Base27Value(_)
Base27Value(str) ==
    IF Len(str) = 0 THEN 0
    ELSE 27 * Base27Value(SubSeq(str, 1, Len(str) - 1))
         + (CHOOSE d \in 0..26 : alphabet[d + 1] = str[Len(str)])

\* C25: Base27(n) is the most-significant-digit-first base-27 representation
\* of n over the alphabet: zero encodes as "a", every n > 0 as a non-empty
\* string that does not start with 'a', decoding gives n back, and the two
\* implementations return the same string.
Base27Canonical ==
    \A enc \in {qOut.utils, qOut.crypto} \ {<<>>} :
        qIn.kind = "Base27" =>
            /\ \A i \in 1..Len(enc) : \E d \in 1..27 : alphabet[d] = enc[i]
            /\ qIn.n = 0 => enc = <<"a">>
            /\ qIn.n > 0 => enc[1] # "a"
            /\ Base27Value(enc) = qIn.n
            /\ (qOut.utils # <<>> /\ qOut.crypto # <<>>) => qOut.utils = qOut.crypto

\* both encoders have run on 27^2 + 26, whose digits are b, a and '-'
Base27CanonicalWitness ==
    /\ qIn.kind = "Base27"
    /\ qIn.n = 755
    /\ qOut.utils = <<"b", "a", "-">>
    /\ qOut.crypto = <<"b", "a", "-">>


\* C26: for every digest d, each derivation of the metadata hash pair
\* (SplitHashToFieldElements, SplitMetadataHash, hashToBigInts) returns the
\* ordered pair p1 = d mod 2^HalfBits (low half), p2 = d div 2^HalfBits
\* (high half), so that p1 + 2^HalfBits * p2 = d.
SplitLowThenHigh ==
    \A pair \in {qOut.prover, qOut.verifier, qOut.semantic} \ {NoPair} :
        qIn.kind = "split" =>
            /\ pair[1] = qIn.digest % Pow2(HalfBits)
            /\ pair[2] = qIn.digest \div Pow2(HalfBits)
            /\ pair[1] + Pow2(HalfBits) * pair[2] = qIn.digest


\* The expiration_timestamp of the issued tokens that carry the nonce.
ExpirationsOf(n) ==
    {JsonUnmarshal(issued[k].ptx.signedMetadata).meta.exp[1] :
        k \in {j \in 1..Len(issued) :
                  LET parsed == JsonUnmarshal(issued[j].ptx.signedMetadata)
                  IN  /\ ~parsed.err
                      /\ parsed.meta.nonce = <<n>>
                      /\ Len(parsed.meta.exp) > 0}}

\* C27: an entry CheckAndSetNonce creates carries the TTL expiration - now,
\* so no replay entry is in the store at a time later than the expiration
\* of its token, the entry created at expiration = now (TTL 0) included.
NoEntryOutlivesToken ==
    \A n \in Nonces :
        store[n].present => \E exp \in ExpirationsOf(n) : now <= exp


\* C28: a call with a replay store configured, on metadata that carries a
\* nonce and no expiration_timestamp, falls back to a TTL of DefaultExp
\* seconds: it takes the nonce to the store with that TTL, and the first
\* such call is fresh and leaves the nonce stored until now + DefaultExp.
DefaultTtlFallback ==
    [][\A p \in Procs :
          (/\ pc[p] \in {"nonce", "setnx"} /\ pc'[p] # pc[p]
           /\ OptsOf(p).RedisURL # "" /\ ParseURLOk(OptsOf(p).RedisURL)
           /\ Len(MetaOf(p).nonce) > 0
           /\ Len(MetaOf(p).exp) = 0)
          => IF pc[p] = "nonce"
             THEN /\ pc'[p] = "setnx"
                  /\ ttl'[p] = DefaultExp
                  /\ res'[p] = res[p]
             ELSE (~store[MetaOf(p).nonce[1]].present /\ store' # store)
                  => /\ store'[MetaOf(p).nonce[1]].present
                     /\ store'[MetaOf(p).nonce[1]].deadline = now + DefaultExp
                     /\ res'[p] = res[p]]_vars


\* C29: for t in {2, 4, 5}, with R_F = 8 and R_P from the round table, the
\* indices Hash uses into C are exactly 0 .. R_F*t + R_P - 1, each used
\* once, and the indices it uses into S lie in 0 .. (2t-1)*R_P - 1; the
\* round table and the tables C and S are long enough for every read, in
\* the scalar and in the circuit implementation.
TableReadsInRange ==
    \A reads \in {qOut.scalar, qOut.circuit} \ {NoReads} :
        qIn.kind = "Poseidon" =>
            /\ reads.t \in {2, 4, 5}
            /\ reads.rF = 8
            /\ reads.rounds \in 0..(reads.nRounds - 1)
            /\ reads.rP = nRoundsP[reads.t - 1]
            /\ \A k \in 1..Len(reads.c) : reads.c[k] \in 0..(reads.rF * reads.t + reads.rP - 1)
            /\ {reads.c[k] : k \in 1..Len(reads.c)} = 0..(reads.rF * reads.t + reads.rP - 1)
            /\ Len(reads.c) = reads.rF * reads.t + reads.rP
            /\ \A k \in 1..Len(reads.s) : reads.s[k] \in 0..((2 * reads.t - 1) * reads.rP - 1)
            /\ \A k \in 1..Len(reads.c) : reads.c[k] < reads.lenC
            /\ \A k \in 1..Len(reads.s) : reads.s[k] < reads.lenS

\* both implementations have hashed four inputs (t = 5), and the last read
\* of S was its last entry
TableReadsInRangeWitness ==
    /\ qIn.kind = "Poseidon"
    /\ Len(qIn.inputs) = 4
    /\ qOut.scalar.ok /\ qOut.circuit.ok
    /\ qOut.scalar.c = qOut.circuit.c
    /\ qOut.scalar.s[Len(qOut.scalar.s)] = qOut.scalar.lenS - 1
    /\ qOut.circuit.s[Len(qOut.circuit.s)] = qOut.circuit.lenS - 1


\* The call has a replay store and a nonce, and its replay check is behind it.
PastReplayCheck(p) ==
    /\ pc[p] \in {"checks", "done"}
    /\ ~res[p].fatal
    /\ OptsOf(p).RedisURL # "" /\ ParseURLOk(OptsOf(p).RedisURL)
    /\ Len(MetaOf(p).nonce) > 0

\* The replay check of the call found its nonce fresh.
FoundFresh(p) == PastReplayCheck(p) /\ ~HasError(res[p], "Nonce invalid or replayed")

\* C30: Verify writes the nonce before the DNS and proof checks and never
\* rolls the write back: the checks and the return leave the store as it
\* is, whatever their verdicts, and of two Verify calls with the same nonce
\* the later one fails as replayed, so both are never found fresh.
NonceWriteNeverRolledBack ==
    [][/\ \A p \in Procs : (pc[p] \in {"checks", "done"} /\ pc'[p] # pc[p]) => store' = store
       /\ \A p \in Procs : \A q \in Procs \ {p} :
              (/\ FoundFresh(p)' /\ FoundFresh(q)'
               /\ pc'[p] = "done" /\ pc'[q] = "done")
              => MetaOf(p).nonce' # MetaOf(q).nonce']_vars

====
